---------------------------- MODULE Spec2Model ----------------------------
(***************************************************************************)
(* A model of the zPump shielded pool (programs/pool), its custody vault   *)
(* (programs/vault) and the collaborators the pool calls through CPI.      *)
(*                                                                         *)
(* 32-byte values are sequences of integers: an atom is <<tag, value>>;    *)
(* the 2-to-1 hash of l and r is <<9, 0>> \o l \o r, an injective          *)
(* (collision-free) stand-in for the Poseidon permutation.                 *)
(***************************************************************************)
EXTENDS Integers, Sequences, FiniteSets, TLC

\* ------------------------------------------------------------------ bounds
\* Depth of the commitment tree in the model (MERKLE_DEPTH is 32 in common).
DEPTH == 2
\* Capacity of the nullifier registry in the model (256 in the program).
MAX_NULLIFIERS == 2
\* Number of bits of the bloom bitmap in the model (BLOOM_BYTES * 8 = 4096).
BLOOM_BITS == 5
\* Tokens of the origin mint that exist outside the vault at the start.
MaxFunds == 3
\* Number of pushes explored in the root window specification.
MaxExtraPushes == 5
\* Number of successful instructions explored in the pool specification.
MaxCalls == 3
\* Tokens of the origin mint at the start of the default-fee scenario.
ScenarioFunds == 10000
\* Bits of the model's u16 and u64 words (16 and 64 in the program); the
\* model's u128 has twice as many, so that, as in the program, the product of
\* a u64 and a u16 fits a u128.
WordBits == 14
\* Seconds the clock advances in the timelock specification.
MaxClock == 3

\* ------------------------------------------------------ program constants
MAX_ROOTS == 16
MAX_BPS == 10000
FEATURE_PRIVATE_TRANSFER_ENABLED == 1
FEATURE_HOOKS_ENABLED == 2
MAX_REQUIRED_ACCOUNTS == 8
MAX_CANOPY == 16
FEE_BPS_DEFAULT == 5

\* The integer types of the program, at the model's width.
U16 == 2 ^ WordBits
U64 == 2 ^ WordBits
U128 == 2 ^ (2 * WordBits)

\* ------------------------------------------------------------- byte values
ZeroBytes == <<0, 0>>
Commitment(c) == <<1, c>>
BogusRoot(k) == <<3, k>>
Nullifier(n) == <<4, n>>
AmountCommit(c) == <<7, c>>
\* u64_to_field_bytes / u8_to_field_bytes: the little-endian value, zero padded.
u64_to_field_bytes(value) == <<5, value>>
u8_to_field_bytes(value) == <<5, value>>
\* Pubkey::to_bytes
key_to_bytes(key) == <<6, key>>

\* CommitmentTree::PRECOMPUTED_ZEROES: one opaque constant per level.
zeroes(level) == <<2, level>>

poseidon_hash(left, right) == <<9, 0>> \o left \o right

\* ----------------------------------------------------------------- keys
\* Pubkeys are small integers; DefaultKey is Pubkey::default().
DefaultKey == 0
PoolKey == 1
OtherKey == 2
VaultKey == 3
VerifierKey == 4
OriginMintKey == 5
TwinMintKey == 6
HookProgram == 7
HookAccA == 8
HookAccB == 9
UserKey == 10
NoAccount == 11
AuthorityKey == 12
\* declare_id! of the pool program, and the pool program id the factory is
\* compiled with.
PoolProgramId == 13
PTF_POOL_PROGRAM_ID == 14
\* The address the factory derives for the pool of the origin mint.
FactoryPoolKey == 15
SystemProgramId == 16

\* Pubkey::find_program_address(&[seeds::POOL, origin_mint], program_id): the
\* pool state account is the address derived under the pool program's id.
find_pool_address(program_id) ==
    IF program_id = PoolProgramId THEN PoolKey ELSE FactoryPoolKey

\* AccountInfo::owner: the pool state account belongs to the pool program.
account_owner(key) == IF key = PoolKey THEN PoolProgramId ELSE SystemProgramId

Pow2(n) == 2 ^ n

\* A mutant of contains: every flag counts as set.
contains_always(flags, other) == TRUE

\* FeatureFlags::contains
contains(flags, other) == \A b \in {1, 2} :
    ((other \div b) % 2 = 1) => ((flags \div b) % 2 = 1)

Err(w, code) == [err |-> code, w |-> w]
Ok(w) == [err |-> "Ok", w |-> w]

\* ------------------------------------------------------- CommitmentTree
RECURSIVE insert_levels(_, _, _, _)
insert_levels(frontier, node, index, level) ==
    IF level = DEPTH THEN [frontier |-> frontier, node |-> node]
    ELSE IF index % 2 = 0
         THEN insert_levels([frontier EXCEPT ![level] = node],
                            poseidon_hash(node, zeroes(level)),
                            index \div 2, level + 1)
         ELSE insert_levels(frontier,
                            poseidon_hash(frontier[level], node),
                            index \div 2, level + 1)

\* CommitmentTree::record_recent: the ring of the last MAX_CANOPY leaves, an
\* index and a commitment each (recent_amount_commitments moves with them).
record_recent(recent, index, commitment) ==
    IF Len(recent) < MAX_CANOPY
    THEN Append(recent, [index |-> index, commitment |-> commitment])
    ELSE Append(Tail(recent), [index |-> index, commitment |-> commitment])

\* CommitmentTree::init
tree_init == [next_index |-> 0,
              current_root |-> zeroes(DEPTH - 1),
              frontier |-> [l \in 0..(DEPTH - 1) |-> ZeroBytes],
              recent |-> <<>>]

\* A mutant of insert_leaf: the frontier is not written.
insert_leaf_stale_frontier(tree, commitment) ==
    IF ~(tree.next_index < Pow2(DEPTH)) THEN [err |-> "TreeFull", tree |-> tree]
    ELSE LET r == insert_levels(tree.frontier, commitment, tree.next_index, 0)
         IN [err |-> "Ok",
             tree |-> [next_index |-> tree.next_index + 1,
                       current_root |-> r.node,
                       frontier |-> tree.frontier,
                       recent |-> record_recent(tree.recent, tree.next_index,
                                                commitment)]]

\* A mutant of insert_leaf: a full tree takes the leaf.
insert_leaf_unbounded(tree, commitment) ==
    LET r == insert_levels(tree.frontier, commitment, tree.next_index, 0)
    IN [err |-> "Ok",
        tree |-> [next_index |-> tree.next_index + 1,
                  current_root |-> r.node,
                  frontier |-> r.frontier,
                  recent |-> record_recent(tree.recent, tree.next_index,
                                           commitment)]]

\* A mutant of insert_leaf: the capacity check admits one leaf too many.
insert_leaf_one_more(tree, commitment) ==
    IF ~(tree.next_index <= Pow2(DEPTH)) THEN [err |-> "TreeFull", tree |-> tree]
    ELSE insert_leaf_unbounded(tree, commitment)

\* CommitmentTree::insert_leaf (append_note calls it directly)
insert_leaf(tree, commitment) ==
    IF ~(tree.next_index < Pow2(DEPTH)) THEN [err |-> "TreeFull", tree |-> tree]
    ELSE LET r == insert_levels(tree.frontier, commitment, tree.next_index, 0)
         IN [err |-> "Ok",
             tree |-> [next_index |-> tree.next_index + 1,
                       current_root |-> r.node,
                       frontier |-> r.frontier,
                       recent |-> record_recent(tree.recent, tree.next_index,
                                                commitment)]]

\* CommitmentTree::append_many: the leaves are inserted one after another; a
\* failing insert leaves the leaves before it in the working copy.
RECURSIVE append_loop(_, _)
append_loop(tree, commitments) ==
    IF commitments = <<>> THEN [err |-> "Ok", tree |-> tree]
    ELSE LET r == insert_leaf(tree, Head(commitments))
         IN IF r.err # "Ok" THEN r ELSE append_loop(r.tree, Tail(commitments))

append_many(tree, commitments, amount_commitments) ==
    IF commitments = <<>> THEN [err |-> "Ok", tree |-> tree]
    ELSE IF Len(commitments) # Len(amount_commitments)
         THEN [err |-> "OutputSetMismatch", tree |-> tree]
         ELSE append_loop(tree, commitments)

\* ------------------------------------------------------------ PoolState
\* A mutant of push_root: a full window overwrites its newest slot instead
\* of evicting its oldest.
push_root_no_evict(pool, root) ==
    IF pool.roots_len >= MAX_ROOTS
    THEN [pool EXCEPT !.recent_roots[MAX_ROOTS - 1] = root,
                      !.current_root = root]
    ELSE [pool EXCEPT
            !.recent_roots = [pool.recent_roots EXCEPT ![pool.roots_len] = root],
            !.roots_len = pool.roots_len + 1,
            !.current_root = root]

\* A mutant of push_root: the window is never taken to be full.
push_root_unbounded(pool, root) ==
    [pool EXCEPT
       !.recent_roots = [i \in 0..(MAX_ROOTS - 1) |->
                           IF i = pool.roots_len THEN root ELSE pool.recent_roots[i]],
       !.roots_len = pool.roots_len + 1,
       !.current_root = root]

\* PoolState::push_root
push_root(pool, root) ==
    IF pool.roots_len >= MAX_ROOTS
    THEN [pool EXCEPT
            !.recent_roots = [i \in 0..(MAX_ROOTS - 1) |->
                                IF i = MAX_ROOTS - 1 THEN root
                                ELSE pool.recent_roots[i + 1]],
            !.current_root = root]
    ELSE [pool EXCEPT
            !.recent_roots = [pool.recent_roots EXCEPT ![pool.roots_len] = root],
            !.roots_len = pool.roots_len + 1,
            !.current_root = root]

\* A mutant of is_known_root: every candidate is known.
is_known_root_always(pool, candidate) == TRUE

\* PoolState::is_known_root
is_known_root(pool, candidate) ==
    \/ pool.current_root = candidate
    \/ \E idx \in 0..(pool.roots_len - 1) : pool.recent_roots[idx] = candidate

\* A mutant of calculate_fee: the quotient is rounded up.
calculate_fee_ceil(pool, amount) == ((amount * pool.fee_bps) + 9999) \div 10000

\* A mutant of calculate_fee: the product is formed in a u64.
calculate_fee_u64_product(pool, amount) ==
    ((amount * pool.fee_bps) % U64) \div 10000

\* PoolState::calculate_fee: the product of the two operands widened to
\* u128, divided by 10_000, then cast to u64.
calculate_fee(pool, amount) == ((amount * pool.fee_bps) \div 10000) % U64

\* PoolState::calculate_fee, its AmountOverflow return (checked_mul on u128).
calculate_fee_overflows(pool, amount) == ~(amount * pool.fee_bps < U128)

\* --------------------------------------------------------- NullifierSet
\* NullifierSet::bloom_positions: three positions derived from the value.
bloom_positions(value) ==
    {(value[2] * (i + 1) + i + value[1]) % BLOOM_BITS : i \in 0..2}

\* NullifierSet::test_bloom_bits
test_bloom_bits(set, value) == bloom_positions(value) \subseteq set.bloom

\* A mutant of contains: only the bloom bitmap is read after a miss of the
\* first entry.
NullifierSet_contains_first(set, value) ==
    IF ~test_bloom_bits(set, value) THEN FALSE
    ELSE set.count > 0 /\ set.entries[0] = value

\* A mutant of contains: the bloom bitmap alone decides.
NullifierSet_contains_bloom_only(set, value) == test_bloom_bits(set, value)

\* NullifierSet::contains
NullifierSet_contains(set, value) ==
    IF ~test_bloom_bits(set, value) THEN FALSE
    ELSE \E idx \in 0..(set.count - 1) : set.entries[idx] = value

\* A mutant of insert: a value that is present is stored again.
NullifierSet_insert_unchecked(set, value) ==
    IF ~(set.count < MAX_NULLIFIERS)
    THEN [err |-> "NullifierCapacity", set |-> set]
    ELSE [err |-> "Ok",
          set |-> [count |-> set.count + 1,
                   entries |-> [set.entries EXCEPT ![set.count] = value],
                   bloom |-> set.bloom \cup bloom_positions(value)]]

\* NullifierSet::insert
NullifierSet_insert(set, value) ==
    IF NullifierSet_contains(set, value)
    THEN [err |-> "NullifierReuse", set |-> set]
    ELSE IF ~(set.count < MAX_NULLIFIERS)
         THEN [err |-> "NullifierCapacity", set |-> set]
         ELSE [err |-> "Ok",
               set |-> [count |-> set.count + 1,
                        entries |-> [set.entries EXCEPT ![set.count] = value],
                        bloom |-> set.bloom \cup bloom_positions(value)]]

\* A mutant of the nullifier loop: the first nullifier is inserted, a refusal
\* is ignored, and the rest of the list is skipped.
insert_nullifiers_skipping(set, nullifiers) ==
    IF nullifiers = <<>> THEN [err |-> "Ok", set |-> set]
    ELSE LET r == NullifierSet_insert(set, Head(nullifiers))
         IN [err |-> "Ok", set |-> r.set]

\* The loop `for nullifier in &args.nullifiers { insert(..).map_err(|_|
\* NullifierReuse)? }` of private_transfer and process_unshield.
RECURSIVE insert_nullifiers(_, _)
insert_nullifiers(set, nullifiers) ==
    IF nullifiers = <<>> THEN [err |-> "Ok", set |-> set]
    ELSE LET r == NullifierSet_insert(set, Head(nullifiers))
         IN IF r.err # "Ok" THEN [err |-> "NullifierReuse", set |-> r.set]
            ELSE insert_nullifiers(r.set, Tail(nullifiers))

\* ----------------------------------------------------------- NoteLedger
\* NoteLedger::init
ledger_init == [total_minted |-> 0, total_spent |-> 0, live_value |-> 0,
                notes_created |-> 0, notes_consumed |-> 0]

\* A mutant of record_shield: the deposit is counted as minted, not as live.
record_shield_not_live(ledger, amount) ==
    [err |-> "Ok",
     ledger |-> [ledger EXCEPT !.total_minted = @ + amount,
                               !.notes_created = @ + 1]]

\* NoteLedger::record_shield
record_shield(ledger, amount) ==
    [err |-> "Ok",
     ledger |-> [ledger EXCEPT !.total_minted = @ + amount,
                               !.live_value = @ + amount,
                               !.notes_created = @ + 1]]

\* A mutant of record_transfer: the two counters take each other's increment.
record_transfer_swapped(ledger, nullifiers, amount_commitments) ==
    [err |-> "Ok",
     ledger |-> [ledger EXCEPT !.notes_consumed = @ + Len(amount_commitments),
                               !.notes_created = @ + Len(nullifiers)]]

\* NoteLedger::record_transfer: the counters are u64 and added with
\* checked_add; notes_consumed is written before notes_created is added.
record_transfer(ledger, nullifiers, amount_commitments) ==
    LET l1 == [ledger EXCEPT !.notes_consumed = @ + Len(nullifiers)]
    IN IF l1.notes_consumed >= U64 THEN [err |-> "AmountOverflow", ledger |-> ledger]
       ELSE IF l1.notes_created + Len(amount_commitments) >= U64
       THEN [err |-> "AmountOverflow", ledger |-> l1]
       ELSE [err |-> "Ok",
             ledger |-> [l1 EXCEPT !.notes_created = @ + Len(amount_commitments)]]

\* A mutant of record_unshield: the spent notes are not counted.
record_unshield_uncounted(ledger, total_spent, nullifiers, output_amount_commitments) ==
    LET l1 == [ledger EXCEPT !.total_spent = @ + total_spent]
    IN IF l1.live_value < total_spent
       THEN [err |-> "InsufficientLiquidity", ledger |-> l1]
       ELSE [err |-> "Ok",
             ledger |-> [l1 EXCEPT
                           !.live_value = @ - total_spent,
                           !.notes_created = @ + Len(output_amount_commitments)]]

\* NoteLedger::record_unshield: total_spent is written before the liquidity
\* check, so a failing call leaves it changed in the working copy.
record_unshield(ledger, total_spent, nullifiers, output_amount_commitments) ==
    LET l1 == [ledger EXCEPT !.total_spent = @ + total_spent]
    IN IF l1.live_value < total_spent
       THEN [err |-> "InsufficientLiquidity", ledger |-> l1]
       ELSE [err |-> "Ok",
             ledger |-> [l1 EXCEPT
                           !.live_value = @ - total_spent,
                           !.notes_consumed = @ + Len(nullifiers),
                           !.notes_created = @ + Len(output_amount_commitments)]]

\* A mutant of ensure_capacity: one unit more than the live value passes.
ensure_capacity_off_by_one(ledger, amount) == ledger.live_value + 1 >= amount

\* NoteLedger::ensure_capacity
ensure_capacity(ledger, amount) == ledger.live_value >= amount

\* ------------------------------------------------------------- verifier
\* A proof is "valid" (the Groth16 equation holds for the public inputs it
\* comes with), "invalid" (it does not) or "empty" (no bytes).

\* groth16_verify: compiled for bpf / sbf, the targets of the deployed
\* program, it returns true whatever it is given; compiled for another
\* target it deserializes the proof and checks the equation.
groth16_verify(target, proof) ==
    IF target.sbf THEN TRUE ELSE proof = "valid"

\* ptf_verifier_groth16::verify_groth16 with the registered (non-empty) key
\* of the pool: an empty proof with empty public inputs returns Ok before the
\* Groth16 check; otherwise the result is that of groth16_verify.
verify_groth16(target, proof, public_inputs) ==
    IF proof = "empty" /\ public_inputs.fields = <<>> /\ ~public_inputs.ragged
    THEN TRUE
    ELSE groth16_verify(target, proof)

\* parse_field_elements: bytes.len() % 32 == 0
parse_ok(public_inputs) == ~public_inputs.ragged

\* ------------------------------------------------- vault and twin mint
\* A mutant of deposit: an amount of zero is taken.
deposit_any_amount(w, amount) ==
    IF w.wallet < amount THEN Err(w, "InsufficientFunds")
    ELSE Ok([w EXCEPT !.vault_token_amount = @ + amount, !.wallet = @ - amount])

\* ptf_vault::deposit (the SPL transfer fails on insufficient funds)
deposit(w, amount) ==
    IF ~(amount > 0) THEN Err(w, "InvalidDepositAmount")
    ELSE IF w.wallet < amount THEN Err(w, "InsufficientFunds")
    ELSE Ok([w EXCEPT !.vault_token_amount = @ + amount, !.wallet = @ - amount])

\* ptf_vault::release: pool_authority is an unchecked AccountInfo whose key
\* is compared with the stored authority; is_signer is never read.
release(w, pool_authority, is_signer, amount) ==
    IF ~(amount > 0) THEN Err(w, "InvalidReleaseAmount")
    ELSE IF pool_authority # w.vault_state.pool_authority
         THEN Err(w, "UnauthorizedCaller")
    ELSE IF w.vault_token_amount < amount THEN Err(w, "InsufficientFunds")
    ELSE Ok([w EXCEPT !.vault_token_amount = @ - amount, !.wallet = @ + amount])

\* ptf_factory::mint_ptkn: the pool authority must be the address derived
\* under PTF_POOL_PROGRAM_ID, a signer, and owned by PTF_POOL_PROGRAM_ID.
mint_ptkn(w, pool_authority, is_signer, amount) ==
    IF ~(amount > 0) THEN Err(w, "InvalidAmount")
    ELSE IF w.factory.paused THEN Err(w, "Paused")
    ELSE IF ~w.factory.has_ptkn THEN Err(w, "PtknMintDisabled")
    ELSE IF find_pool_address(PTF_POOL_PROGRAM_ID) # pool_authority
            \/ ~is_signer
            \/ account_owner(pool_authority) # PTF_POOL_PROGRAM_ID
         THEN Err(w, "PoolAuthorityMismatch")
    ELSE Ok([w EXCEPT !.twin_supply = @ + amount])

\* ---------------------------------------------------------------- hooks
\* A mutant of validate_hook_keys: Strict compares the two lists as sets.
validate_hook_keys_unordered(required_accounts, mode, provided_accounts) ==
    IF mode = "Strict"
    THEN IF {required_accounts[i] : i \in 1..Len(required_accounts)}
              # {provided_accounts[j] : j \in 1..Len(provided_accounts)}
         THEN "HookAccountMismatch"
         ELSE "Ok"
    ELSE IF \E i \in 1..Len(required_accounts) :
               \A j \in 1..Len(provided_accounts) :
                   provided_accounts[j] # required_accounts[i]
         THEN "HookAccountMissing"
         ELSE "Ok"

\* validate_hook_keys
validate_hook_keys(required_accounts, mode, provided_accounts) ==
    IF mode = "Strict"
    THEN IF Len(provided_accounts) # Len(required_accounts)
         THEN "HookAccountMismatch"
         ELSE IF \E i \in 1..Len(required_accounts) :
                    required_accounts[i] # provided_accounts[i]
              THEN "HookAccountMismatch"
              ELSE "Ok"
    ELSE IF \E i \in 1..Len(required_accounts) :
               \A j \in 1..Len(provided_accounts) :
                   provided_accounts[j] # required_accounts[i]
         THEN "HookAccountMissing"
         ELSE "Ok"

\* The hook block shared by shield and process_unshield: the account check,
\* then invoke_signed on the target (hook_ok: the target returns Ok).
dispatch_hook(w, target_program, remaining_accounts, hook_ok) ==
    LET hook_enabled == contains(w.pool_state.features, FEATURE_HOOKS_ENABLED)
                        /\ w.pool_state.hook_config_present
    IN IF ~hook_enabled \/ target_program = DefaultKey THEN "Ok"
       ELSE LET v == validate_hook_keys(w.hook_config.required_accounts,
                                        w.hook_config.mode, remaining_accounts)
            IN IF v # "Ok" THEN v
               ELSE IF ~hook_ok THEN "HookFailed" ELSE "Ok"

\* -------------------------------------------------------- supply invariant
\* validate_supply_components
validate_supply_components(pool, ledger, twin_supply, vault_balance) ==
    IF vault_balance = twin_supply + ledger.live_value + pool.protocol_fees
    THEN "Ok" ELSE "InvariantBreach"

\* enforce_supply_invariant. vault_amount and mint_supply are the fields of
\* the InterfaceAccount values of the instruction context.
enforce_supply_invariant(pool, ledger, vault_amount, twin_mint, mint_supply) ==
    IF pool.twin_mint_enabled /\ twin_mint # NoAccount
    THEN IF twin_mint # TwinMintKey THEN "TwinMintMismatch"
         ELSE validate_supply_components(pool, ledger, mint_supply, vault_amount)
    ELSE IF pool.twin_mint_enabled THEN "TwinMintNotConfigured"
    ELSE IF twin_mint # NoAccount THEN "TwinMintMismatch"
    ELSE validate_supply_components(pool, ledger, 0, vault_amount)

\* The #[cfg(feature = "invariant_checks")] block that ends shield and
\* process_unshield. The handlers never reload ctx.accounts after their CPIs,
\* so the token account and the mint hold what was deserialized when the
\* instruction started (entry), not what the CPIs wrote.
final_invariant(entry, w, twin_mint) ==
    IF ~w.build.invariant_checks THEN "Ok"
    ELSE enforce_supply_invariant(w.pool_state, w.note_ledger,
                                  entry.vault_token_amount, twin_mint,
                                  entry.twin_supply)

\* -------------------------------------------------------------- handlers
\* Each handler maps the accounts at entry (w) and its arguments (a) to
\* [err, w]: the error code and the working copy of the accounts at the
\* point of return.

\* The twin mint account check shared by shield and process_unshield.
twin_mint_check(pool, twin_mint) ==
    IF ~pool.twin_mint_enabled THEN "Ok"
    ELSE IF twin_mint = NoAccount THEN "TwinMintNotConfigured"
    ELSE IF twin_mint # TwinMintKey THEN "TwinMintMismatch"
    ELSE "Ok"

\* A mutant of the leaf step: the leaf index is not advanced.
shield_leaf_same_index(w, commitment_bytes, new_root_bytes) ==
    IF w.build.full_tree
    THEN [insert_leaf(w.commitment_tree, commitment_bytes) EXCEPT
            !.tree.next_index = w.commitment_tree.next_index]
    ELSE [err |-> "Ok",
          tree |-> [w.commitment_tree EXCEPT !.current_root = new_root_bytes]]

\* shield, the leaf step: append_note under full_tree; otherwise the caller's
\* new root is stored and next_index advanced without touching the frontier.
shield_leaf(w, commitment_bytes, new_root_bytes) ==
    IF w.build.full_tree
    THEN insert_leaf(w.commitment_tree, commitment_bytes)
    ELSE IF ~(w.commitment_tree.next_index < Pow2(DEPTH))
         THEN [err |-> "TreeFull", tree |-> w.commitment_tree]
         ELSE [err |-> "Ok",
               tree |-> [w.commitment_tree EXCEPT
                           !.next_index = @ + 1,
                           !.current_root = new_root_bytes]]

\* ptf_pool::shield, from the deposit CPI on.
shield_apply(w, a) ==
    LET fields == a.public_inputs.fields
        new_root_bytes == fields[2]
        commitment_bytes == fields[3]
        d == deposit(w, a.amount)
    IN IF d.err # "Ok" THEN d
       ELSE LET t == shield_leaf(d.w, commitment_bytes, new_root_bytes)
                w1 == [d.w EXCEPT !.commitment_tree = t.tree]
            IN IF t.err # "Ok" THEN Err(w1, t.err)
               ELSE IF new_root_bytes # t.tree.current_root
                    THEN Err(w1, "RootMismatch")
               ELSE LET w2 == [w1 EXCEPT
                                 !.pool_state = push_root(@, t.tree.current_root),
                                 !.note_ledger = record_shield(@, a.amount).ledger]
                        h == dispatch_hook(w2, w2.hook_config.post_shield_program_id,
                                           a.remaining_accounts, a.hook_ok)
                    IN IF h # "Ok" THEN Err(w2, h)
                       ELSE LET c == final_invariant(w, w2, a.twin_mint)
                            IN IF c # "Ok" THEN Err(w2, c) ELSE Ok(w2)

\* A mutant of shield: the deposit is requested before the proof is verified.
shield_deposit_first(w, a) ==
    LET pool == w.pool_state
        fields == a.public_inputs.fields
    IN IF a.verifier_program # VerifierKey THEN Err(w, "VerifierMismatch")
       ELSE IF a.vault_state # VaultKey
               \/ w.vault_state.pool_authority # PoolKey
            THEN Err(w, "MismatchedVaultAuthority")
       ELSE IF w.commitment_tree.current_root # pool.current_root
            THEN Err(w, "RootMismatch")
       ELSE IF twin_mint_check(pool, a.twin_mint) # "Ok"
            THEN Err(w, twin_mint_check(pool, a.twin_mint))
       ELSE IF ~parse_ok(a.public_inputs) \/ Len(fields) < 3
            THEN Err(w, "InvalidPublicInputs")
       ELSE IF fields[1] # pool.current_root THEN Err(w, "RootMismatch")
       ELSE IF ~verify_groth16(w.build, a.proof, a.public_inputs)
            THEN Err(deposit(w, a.amount).w, "InvalidProof")
       ELSE shield_apply(w, a)

\* ptf_pool::shield
shield(w, a) ==
    LET pool == w.pool_state
        fields == a.public_inputs.fields
    IN IF a.verifier_program # VerifierKey THEN Err(w, "VerifierMismatch")
       ELSE IF a.vault_state # VaultKey
               \/ w.vault_state.pool_authority # PoolKey
            THEN Err(w, "MismatchedVaultAuthority")
       ELSE IF w.commitment_tree.current_root # pool.current_root
            THEN Err(w, "RootMismatch")
       ELSE IF twin_mint_check(pool, a.twin_mint) # "Ok"
            THEN Err(w, twin_mint_check(pool, a.twin_mint))
       ELSE IF ~parse_ok(a.public_inputs) \/ Len(fields) < 3
            THEN Err(w, "InvalidPublicInputs")
       ELSE IF fields[1] # pool.current_root THEN Err(w, "RootMismatch")
       ELSE IF ~verify_groth16(w.build, a.proof, a.public_inputs)
            THEN Err(w, "InvalidProof")
       ELSE shield_apply(w, a)

\* A mutant of validate_unshield_public_inputs: the fee field is not compared.
validate_unshield_public_inputs_unbound_fee(pool, pool_key, a, mode, destination, fee) ==
    LET fields == a.public_inputs.fields
        change_outputs == Len(a.output_commitments)
        expected_len == 2 + Len(a.nullifiers) + (2 * change_outputs) + 6
        expected == <<a.old_root, a.new_root>> \o a.nullifiers
                    \o a.output_commitments \o a.output_amount_commitments
                    \o <<u64_to_field_bytes(a.amount), u64_to_field_bytes(fee),
                         key_to_bytes(destination), u8_to_field_bytes(mode),
                         key_to_bytes(OriginMintKey), key_to_bytes(pool_key)>>
    IN IF ~parse_ok(a.public_inputs) \/ Len(fields) # expected_len
       THEN "InvalidPublicInputs"
       ELSE IF \E i \in (1..expected_len) \ {expected_len - 4} :
                  fields[i] # expected[i]
            THEN "PublicInputMismatch" ELSE "Ok"

\* validate_unshield_public_inputs
validate_unshield_public_inputs(pool, pool_key, a, mode, destination, fee) ==
    LET fields == a.public_inputs.fields
        change_outputs == Len(a.output_commitments)
        expected_len == 2 + Len(a.nullifiers) + (2 * change_outputs) + 6
        expected == <<a.old_root, a.new_root>> \o a.nullifiers
                    \o a.output_commitments \o a.output_amount_commitments
                    \o <<u64_to_field_bytes(a.amount), u64_to_field_bytes(fee),
                         key_to_bytes(destination), u8_to_field_bytes(mode),
                         key_to_bytes(OriginMintKey), key_to_bytes(pool_key)>>
    IN IF ~parse_ok(a.public_inputs) \/ Len(fields) # expected_len
       THEN "InvalidPublicInputs"
       ELSE IF fields # expected THEN "PublicInputMismatch" ELSE "Ok"

\* A mutant of the value movement: the twin branch goes to the factory
\* without asking whether the pool has a twin mint.
unshield_move_unchecked(w, a, mode) ==
    IF mode = 0
    THEN IF a.destination_mint # OriginMintKey THEN Err(w, "OriginMintMismatch")
         ELSE release(w, PoolKey, TRUE, a.amount)
    ELSE IF a.destination_mint # TwinMintKey THEN Err(w, "TwinMintMismatch")
         ELSE mint_ptkn(w, PoolKey, TRUE, a.amount)

\* process_unshield, the value movement: `match mode { Origin => vault
\* release, Twin => factory mint }`, both signed with the pool's seeds.
unshield_move(w, a, mode) ==
    IF mode = 0
    THEN IF a.destination_mint # OriginMintKey THEN Err(w, "OriginMintMismatch")
         ELSE release(w, PoolKey, TRUE, a.amount)
    ELSE IF ~w.pool_state.twin_mint_enabled \/ ~w.factory.has_ptkn
              \/ a.twin_mint = NoAccount
         THEN Err(w, "TwinMintNotConfigured")
         ELSE IF a.destination_mint # TwinMintKey THEN Err(w, "TwinMintMismatch")
         ELSE mint_ptkn(w, PoolKey, TRUE, a.amount)

\* process_unshield, from the nullifier loop on.
unshield_apply(w, a, mode, fee, total_spent) ==
    LET n == insert_nullifiers(w.nullifier_set, a.nullifiers)
        w1 == [w EXCEPT !.nullifier_set = n.set]
    IN IF n.err # "Ok" THEN Err(w1, n.err)
       ELSE LET t == append_many(w1.commitment_tree, a.output_commitments,
                                 a.output_amount_commitments)
                w2 == [w1 EXCEPT !.commitment_tree = t.tree]
            IN IF t.err # "Ok" THEN Err(w2, t.err)
               ELSE IF t.tree.current_root # a.new_root
                    THEN Err(w2, "RootMismatch")
               ELSE LET l == record_unshield(w2.note_ledger, total_spent,
                                             a.nullifiers,
                                             a.output_amount_commitments)
                        w3 == [w2 EXCEPT
                                 !.pool_state = push_root(@, t.tree.current_root),
                                 !.note_ledger = l.ledger]
                    IN IF l.err # "Ok" THEN Err(w3, l.err)
                       ELSE LET w4 == [w3 EXCEPT
                                         !.pool_state.protocol_fees = @ + fee]
                                m == unshield_move(w4, a, mode)
                            IN IF m.err # "Ok" THEN m
                               ELSE LET h == dispatch_hook(m.w,
                                              m.w.hook_config.post_unshield_program_id,
                                              a.remaining_accounts, a.hook_ok)
                                    IN IF h # "Ok" THEN Err(m.w, h)
                                       ELSE LET c == final_invariant(w, m.w, a.twin_mint)
                                            IN IF c # "Ok" THEN Err(m.w, c)
                                               ELSE Ok(m.w)

\* process_unshield (unshield_to_origin: mode 0, unshield_to_ptkn: mode 1)
process_unshield(w, a, mode) ==
    LET pool == w.pool_state
        fee == calculate_fee(pool, a.amount)
        total_spent == a.amount + fee
        v == validate_unshield_public_inputs(pool, PoolKey, a, mode,
                                             a.destination_owner, fee)
    IN IF a.verifier_program # VerifierKey THEN Err(w, "VerifierMismatch")
       ELSE IF a.vault_state # VaultKey
               \/ w.vault_state.pool_authority # PoolKey
            THEN Err(w, "MismatchedVaultAuthority")
       ELSE IF twin_mint_check(pool, a.twin_mint) # "Ok"
            THEN Err(w, twin_mint_check(pool, a.twin_mint))
       ELSE IF ~is_known_root(pool, a.old_root) THEN Err(w, "UnknownRoot")
       ELSE IF w.commitment_tree.current_root # a.old_root
            THEN Err(w, "RootMismatch")
       ELSE IF Len(a.output_commitments) # Len(a.output_amount_commitments)
            THEN Err(w, "OutputSetMismatch")
       ELSE IF Len(a.output_commitments) # 1
            THEN Err(w, "InvalidChangeNoteCount")
       ELSE IF ~verify_groth16(w.build, a.proof, a.public_inputs)
            THEN Err(w, "InvalidProof")
       ELSE IF calculate_fee_overflows(pool, a.amount) \/ ~(total_spent < U64)
            THEN Err(w, "AmountOverflow")
       ELSE IF v # "Ok" THEN Err(w, v)
       ELSE IF ~ensure_capacity(w.note_ledger, total_spent)
            THEN Err(w, "InsufficientLiquidity")
       ELSE unshield_apply(w, a, mode, fee, total_spent)

\* ptf_pool::private_transfer
private_transfer(w, a) ==
    LET pool == w.pool_state
        n == insert_nullifiers(w.nullifier_set, a.nullifiers)
        w1 == [w EXCEPT !.nullifier_set = n.set]
        t == append_many(w1.commitment_tree, a.output_commitments,
                         a.output_amount_commitments)
        w2 == [w1 EXCEPT !.commitment_tree = t.tree]
        w3 == [w2 EXCEPT
                 !.pool_state = push_root(@, t.tree.current_root),
                 !.note_ledger = record_transfer(@, a.nullifiers,
                                                 a.output_amount_commitments).ledger]
    IN IF a.verifier_program # VerifierKey THEN Err(w, "VerifierMismatch")
       ELSE IF ~contains(pool.features, FEATURE_PRIVATE_TRANSFER_ENABLED)
            THEN Err(w, "FeatureDisabled")
       ELSE IF ~is_known_root(pool, a.old_root) THEN Err(w, "UnknownRoot")
       ELSE IF w.commitment_tree.current_root # a.old_root
            THEN Err(w, "RootMismatch")
       ELSE IF ~verify_groth16(w.build, a.proof, a.public_inputs)
            THEN Err(w, "InvalidProof")
       ELSE IF n.err # "Ok" THEN Err(w1, n.err)
       ELSE IF Len(a.output_commitments) # Len(a.output_amount_commitments)
            THEN Err(w1, "OutputSetMismatch")
       ELSE IF t.err # "Ok" THEN Err(w2, t.err)
       ELSE IF t.tree.current_root # a.new_root THEN Err(w2, "RootMismatch")
       ELSE Ok(w3)

\* UpdateAuthority / ConfigureHooks: `authority: Signer` with has_one on the
\* pool state.
has_one_authority(authority) == authority = AuthorityKey

\* ptf_pool::accept_root
accept_root(w, authority, root) ==
    IF ~has_one_authority(authority) THEN Err(w, "ConstraintHasOne")
    ELSE Ok([w EXCEPT !.pool_state = push_root(@, root)])

\* ptf_pool::write_nullifier
write_nullifier(w, authority, nullifier) ==
    LET r == NullifierSet_insert(w.nullifier_set, nullifier)
    IN IF ~has_one_authority(authority) THEN Err(w, "ConstraintHasOne")
       ELSE IF r.err # "Ok" THEN Err(w, "NullifierReuse")
       ELSE Ok([w EXCEPT !.nullifier_set = r.set])

\* A mutant of set_fee: the fee is stored without the range check.
set_fee_unchecked(w, authority, fee_bps) ==
    IF ~has_one_authority(authority) THEN Err(w, "ConstraintHasOne")
    ELSE Ok([w EXCEPT !.pool_state.fee_bps = fee_bps])

\* ptf_pool::set_fee
set_fee(w, authority, fee_bps) ==
    IF ~has_one_authority(authority) THEN Err(w, "ConstraintHasOne")
    ELSE IF ~(fee_bps <= MAX_BPS) THEN Err(w, "InvalidFeeBps")
    ELSE Ok([w EXCEPT !.pool_state.fee_bps = fee_bps])

\* ptf_pool::set_features
set_features(w, authority, features) ==
    IF ~has_one_authority(authority) THEN Err(w, "ConstraintHasOne")
    ELSE Ok([w EXCEPT !.pool_state.features = features])

\* A mutant of configure_hooks: the HOOKS feature bit is not asked for.
configure_hooks_unguarded(w, authority, a) ==
    IF ~has_one_authority(authority) THEN Err(w, "ConstraintHasOne")
    ELSE Ok([w EXCEPT
               !.hook_config = [post_shield_program_id |-> a.post_shield_program,
                                post_unshield_program_id |-> a.post_unshield_program,
                                required_accounts |-> a.required_accounts,
                                mode |-> a.mode],
               !.pool_state.hook_config_present =
                   ~(a.post_shield_program = DefaultKey
                     /\ a.post_unshield_program = DefaultKey)])

\* ptf_pool::configure_hooks: the hook account is rewritten key by key, so
\* the TooManyHookAccounts return leaves the first keys in the working copy.
configure_hooks(w, authority, a) ==
    LET kept == IF Len(a.required_accounts) > MAX_REQUIRED_ACCOUNTS
                THEN SubSeq(a.required_accounts, 1, MAX_REQUIRED_ACCOUNTS)
                ELSE a.required_accounts
        w1 == [w EXCEPT
                 !.hook_config = [post_shield_program_id |-> a.post_shield_program,
                                  post_unshield_program_id |-> a.post_unshield_program,
                                  required_accounts |-> kept,
                                  mode |-> a.mode]]
    IN IF ~has_one_authority(authority) THEN Err(w, "ConstraintHasOne")
       ELSE IF ~contains(w.pool_state.features, FEATURE_HOOKS_ENABLED)
            THEN Err(w, "HooksDisabled")
       ELSE IF Len(a.required_accounts) > MAX_REQUIRED_ACCOUNTS
            THEN Err(w1, "TooManyHookAccounts")
       ELSE Ok([w1 EXCEPT
                  !.pool_state.hook_config_present =
                      ~(a.post_shield_program = DefaultKey
                        /\ a.post_unshield_program = DefaultKey)])


\* ---------------------------------------------------------------- state
VARIABLES
    build,               \* cargo features of the pool build, target of the verifier
    pool_state,          \* PoolState
    commitment_tree,     \* CommitmentTree
    nullifier_set,       \* NullifierSet
    note_ledger,         \* NoteLedger
    hook_config,         \* HookConfig
    vault_state,         \* ptf_vault::VaultState
    vault_token_amount,  \* amount of the vault's token account
    wallet,              \* origin tokens held outside the vault
    twin_supply,         \* supply of the twin mint
    factory,             \* FactoryState.paused, MintMapping.has_ptkn
    last,                \* the last instruction: its name, its result, and
                         \* whether the pool authority signed it
    outside_flow,        \* a vault instruction was called directly
    budget,              \* number of successful instructions still explored
    pushed,              \* every root pushed to the window so far, in order
    leaves               \* every commitment given to the tree so far, in order

accounts == <<pool_state, commitment_tree, nullifier_set, note_ledger,
              hook_config, vault_state, vault_token_amount, wallet,
              twin_supply, factory>>
vars == <<build, accounts, last, outside_flow, budget, pushed, leaves>>

World == [build |-> build,
          pool_state |-> pool_state,
          commitment_tree |-> commitment_tree,
          nullifier_set |-> nullifier_set,
          note_ledger |-> note_ledger,
          hook_config |-> hook_config,
          vault_state |-> vault_state,
          vault_token_amount |-> vault_token_amount,
          wallet |-> wallet,
          twin_supply |-> twin_supply,
          factory |-> factory]

Write(w) ==
    /\ pool_state' = w.pool_state
    /\ commitment_tree' = w.commitment_tree
    /\ nullifier_set' = w.nullifier_set
    /\ note_ledger' = w.note_ledger
    /\ hook_config' = w.hook_config
    /\ vault_state' = w.vault_state
    /\ vault_token_amount' = w.vault_token_amount
    /\ wallet' = w.wallet
    /\ twin_supply' = w.twin_supply
    /\ factory' = w.factory

\* A mutant of Commit: the account writes of a failed instruction are kept.
CommitKeepingWrites(op, signed, r) ==
    /\ last' = [op |-> op, err |-> r.err, signed |-> signed]
    /\ Write(r.w)

\* The end of an instruction: the handler's Result goes back to the runtime,
\* which keeps the account writes of an Ok and discards those of an Err.
Commit(op, signed, r) ==
    /\ last' = [op |-> op, err |-> r.err, signed |-> signed]
    /\ IF r.err = "Ok" THEN Write(r.w) ELSE UNCHANGED accounts

\* ptf_pool::initialize_pool: the accounts it leaves behind.
pool_init(fee_bps, features, has_ptkn) ==
    [fee_bps |-> fee_bps,
     features |-> features,
     protocol_fees |-> 0,
     twin_mint_enabled |-> has_ptkn,
     hook_config_present |-> FALSE,
     current_root |-> tree_init.current_root,
     roots_len |-> 1,
     recent_roots |-> [i \in 0..(MAX_ROOTS - 1) |->
                         IF i = 0 THEN tree_init.current_root ELSE ZeroBytes]]

nullifier_init == [count |-> 0,
                   entries |-> [i \in 0..(MAX_NULLIFIERS - 1) |-> ZeroBytes],
                   bloom |-> {}]

hook_init == [post_shield_program_id |-> DefaultKey,
              post_unshield_program_id |-> DefaultKey,
              required_accounts |-> <<>>,
              mode |-> "Strict"]

\* The accounts after initialize_pool, beside a factory whose pause switch
\* and mint mapping its authority may have changed since (pause, update_mint).
InitAccountsWith(fee_bps, features, has_ptkn, funds, factory_now) ==
    /\ pool_state = pool_init(fee_bps, features, has_ptkn)
    /\ commitment_tree = tree_init
    /\ nullifier_set = nullifier_init
    /\ note_ledger = ledger_init
    /\ hook_config = hook_init
    /\ vault_state = [pool_authority |-> PoolKey]
    /\ vault_token_amount = 0
    /\ wallet = funds
    /\ twin_supply = 0
    /\ factory = factory_now
    /\ last = [op |-> "initialize_pool", err |-> "Ok", signed |-> TRUE]
    /\ outside_flow = FALSE
    /\ pushed = <<tree_init.current_root>>
    /\ leaves = <<>>

InitAccounts(fee_bps, features, has_ptkn, funds) ==
    InitAccountsWith(fee_bps, features, has_ptkn, funds,
                     [paused |-> FALSE, has_ptkn |-> has_ptkn])

\* The pool accounts before initialize_pool created them: zeroed data.
pool_zero ==
    [pool_init(0, 0, FALSE) EXCEPT
       !.current_root = ZeroBytes,
       !.roots_len = 0,
       !.recent_roots = [i \in 0..(MAX_ROOTS - 1) |-> ZeroBytes]]

tree_zero == [tree_init EXCEPT !.current_root = ZeroBytes]

\* The pool accounts exist: initialize_pool stored the first root.
pool_created(w) == w.pool_state.roots_len > 0

\* ptf_pool::initialize_pool. The `init` constraints of InitializePool fail
\* when the accounts exist already.
initialize_pool(w, a) ==
    LET has_ptkn == w.factory.has_ptkn
    IN IF pool_created(w) THEN Err(w, "AccountAlreadyInUse")
       ELSE IF ~(a.fee_bps <= MAX_BPS) THEN Err(w, "InvalidFeeBps")
       ELSE IF has_ptkn /\ a.twin_mint = NoAccount
            THEN Err(w, "TwinMintNotConfigured")
       ELSE IF has_ptkn /\ a.twin_mint # TwinMintKey
            THEN Err(w, "TwinMintMismatch")
       ELSE IF ~has_ptkn /\ a.twin_mint # NoAccount
            THEN Err(w, "TwinMintMismatch")
       ELSE IF w.vault_state.pool_authority # PoolKey
            THEN Err(w, "MismatchedVaultAuthority")
       ELSE Ok([w EXCEPT
                  !.pool_state = pool_init(a.fee_bps, a.features, has_ptkn),
                  !.hook_config = hook_init,
                  !.nullifier_set = nullifier_init,
                  !.commitment_tree = tree_init,
                  !.note_ledger = ledger_init])

\* The builds of the pool: its cargo features, beside a verifier compiled for
\* a target where groth16_verify checks proofs (both targets are explored
\* in the specification of the verifier below).
Builds == [invariant_checks : BOOLEAN, full_tree : BOOLEAN, sbf : {FALSE}]

Init ==
    /\ build \in Builds
    /\ budget = MaxCalls
    /\ \E fee_bps \in {5000}, has_ptkn \in BOOLEAN :
         InitAccounts(fee_bps, FEATURE_PRIVATE_TRANSFER_ENABLED, has_ptkn, MaxFunds)

\* ---------------------------------------------------------------- inputs
Amounts == 0..(MaxFunds + 1)
\* The amounts of the default-fee scenario (10,000 in, 9,500 out).
ScenarioAmounts == {9500, 10000}

\* The commitment of the next note and the nullifier of the next spend: a
\* client derives fresh ones for every note.
FreshCommit(w) == w.commitment_tree.next_index + 1
FreshNullifier(w) == w.nullifier_set.count + 1
\* A nullifier that was spent before, when there is one.
SpentNullifier(w) ==
    IF w.nullifier_set.count > 0 THEN w.nullifier_set.entries[0][2] ELSE 0

TwinAccount(w) == IF w.pool_state.twin_mint_enabled THEN TwinMintKey ELSE NoAccount

\* A root of the window that is not the latest one, when there is one.
StaleRoot(w) ==
    IF w.pool_state.roots_len > 1
    THEN w.pool_state.recent_roots[w.pool_state.roots_len - 2]
    ELSE BogusRoot(0)

\* The shield a client builds for the pool as it stands.
ShieldArgs(w, amount, c) ==
    [amount |-> amount,
     proof |-> "valid",
     public_inputs |->
        [fields |-> <<w.pool_state.current_root,
                      insert_leaf(w.commitment_tree, Commitment(c)).tree.current_root,
                      Commitment(c)>>,
         ragged |-> FALSE],
     verifier_program |-> VerifierKey,
     vault_state |-> VaultKey,
     twin_mint |-> TwinAccount(w),
     remaining_accounts |-> w.hook_config.required_accounts,
     hook_ok |-> TRUE]

ShieldInputs(w, amounts) ==
    LET g == ShieldArgs(w, 1, FreshCommit(w))
    IN {ShieldArgs(w, amount, FreshCommit(w)) : amount \in amounts}
       \cup {[g EXCEPT !.proof = "invalid"],
             [g EXCEPT !.proof = "empty"],
             [g EXCEPT !.proof = "empty",
                       !.public_inputs = [fields |-> <<>>, ragged |-> FALSE]],
             [g EXCEPT !.public_inputs.ragged = TRUE],
             [g EXCEPT !.public_inputs.fields = SubSeq(@, 1, 2)],
             [g EXCEPT !.public_inputs.fields[1] = StaleRoot(w)],
             [g EXCEPT !.public_inputs.fields[2] = BogusRoot(1)],
             [g EXCEPT !.verifier_program = OtherKey],
             [g EXCEPT !.vault_state = OtherKey],
             [g EXCEPT !.twin_mint = OtherKey],
             [g EXCEPT !.twin_mint = IF @ = NoAccount THEN TwinMintKey ELSE NoAccount],
             [g EXCEPT !.remaining_accounts = <<HookAccB, HookAccA>>],
             [g EXCEPT !.remaining_accounts = <<>>],
             [g EXCEPT !.hook_ok = FALSE]}

\* The public inputs an unshield must carry (validate_unshield_public_inputs).
UnshieldFields(a, mode, fee) ==
    <<a.old_root, a.new_root>> \o a.nullifiers
    \o a.output_commitments \o a.output_amount_commitments
    \o <<u64_to_field_bytes(a.amount), u64_to_field_bytes(fee),
         key_to_bytes(a.destination_owner), u8_to_field_bytes(mode),
         key_to_bytes(OriginMintKey), key_to_bytes(PoolKey)>>

WithFields(a, mode, fee) ==
    [a EXCEPT !.public_inputs = [fields |-> UnshieldFields(a, mode, fee),
                                 ragged |-> FALSE]]

\* The unshield a client builds for the pool as it stands.
UnshieldArgs(w, mode, amount, n, c, old_root) ==
    WithFields(
      [old_root |-> old_root,
       new_root |-> append_many(w.commitment_tree, <<Commitment(c)>>,
                                <<AmountCommit(c)>>).tree.current_root,
       nullifiers |-> <<Nullifier(n)>>,
       output_commitments |-> <<Commitment(c)>>,
       output_amount_commitments |-> <<AmountCommit(c)>>,
       amount |-> amount,
       proof |-> "valid",
       public_inputs |-> [fields |-> <<>>, ragged |-> FALSE],
       verifier_program |-> VerifierKey,
       vault_state |-> VaultKey,
       twin_mint |-> TwinAccount(w),
       destination_mint |-> IF mode = 0 THEN OriginMintKey ELSE TwinMintKey,
       destination_owner |-> UserKey,
       remaining_accounts |-> w.hook_config.required_accounts,
       hook_ok |-> TRUE],
      mode, calculate_fee(w.pool_state, amount))

UnshieldInputs(w, mode, amounts) ==
    LET cur == w.pool_state.current_root
        fee == calculate_fee(w.pool_state, 1)
        n == FreshNullifier(w)
        c == FreshCommit(w)
        g == UnshieldArgs(w, mode, 1, n, c, cur)
    IN {UnshieldArgs(w, mode, amount, n, c, cur) : amount \in amounts}
       \cup {UnshieldArgs(w, mode, 1, SpentNullifier(w), c, cur),
             UnshieldArgs(w, mode, 1, n, c, StaleRoot(w)),
             UnshieldArgs(w, mode, 1, n, c, BogusRoot(2)),
             WithFields([g EXCEPT !.new_root = BogusRoot(1)], mode, fee),
             WithFields([g EXCEPT !.nullifiers = <<Nullifier(n), Nullifier(n)>>],
                        mode, fee),
             WithFields([g EXCEPT !.output_commitments = <<>>,
                                  !.output_amount_commitments = <<>>], mode, fee),
             WithFields([g EXCEPT !.output_amount_commitments = <<>>], mode, fee),
             WithFields(g, mode, fee + 1),
             [g EXCEPT !.public_inputs.ragged = TRUE],
             [g EXCEPT !.public_inputs.fields = Tail(@)],
             [g EXCEPT !.proof = "invalid"],
             [g EXCEPT !.proof = "empty",
                       !.public_inputs = [fields |-> <<>>, ragged |-> FALSE]],
             [g EXCEPT !.verifier_program = OtherKey],
             [g EXCEPT !.vault_state = OtherKey],
             [g EXCEPT !.twin_mint = IF @ = NoAccount THEN TwinMintKey ELSE NoAccount],
             [g EXCEPT !.destination_mint = OtherKey],
             [g EXCEPT !.remaining_accounts = <<HookAccA>>],
             [g EXCEPT !.hook_ok = FALSE]}

\* The private transfer a client builds for the pool as it stands.
TransferArgs(w, n, c, old_root) ==
    [verifier_program |-> VerifierKey,
     old_root |-> old_root,
     new_root |-> append_many(w.commitment_tree, <<Commitment(c)>>,
                              <<AmountCommit(c)>>).tree.current_root,
     nullifiers |-> <<Nullifier(n)>>,
     output_commitments |-> <<Commitment(c)>>,
     output_amount_commitments |-> <<AmountCommit(c)>>,
     proof |-> "valid",
     public_inputs |-> [fields |-> <<old_root>>, ragged |-> FALSE]]

TransferInputs(w) ==
    LET cur == w.pool_state.current_root
        n == FreshNullifier(w)
        c == FreshCommit(w)
        g == TransferArgs(w, n, c, cur)
    IN {g,
        TransferArgs(w, SpentNullifier(w), c, cur),
        TransferArgs(w, n, c, StaleRoot(w)),
        TransferArgs(w, n, c, BogusRoot(2)),
        [g EXCEPT !.new_root = BogusRoot(1)],
        [g EXCEPT !.nullifiers = <<Nullifier(n), Nullifier(n)>>],
        [g EXCEPT !.output_commitments = <<>>,
                  !.output_amount_commitments = <<>>,
                  !.new_root = w.commitment_tree.current_root],
        [g EXCEPT !.output_amount_commitments = <<>>],
        [g EXCEPT !.proof = "invalid"],
        [g EXCEPT !.verifier_program = OtherKey]}

Signers == {AuthorityKey, UserKey}

\* --------------------------------------------------------------- actions
\* A failed instruction writes no account (Commit), so the instructions that
\* can follow it are those that can follow the state before it. They are
\* explored after a success and after an InvariantBreach.
Explored == last.err \in {"Ok", "InvariantBreach"}

\* The instructions that end with one PoolState::push_root.
PushingOps == {"initialize_pool", "shield", "private_transfer",
               "unshield_to_origin", "unshield_to_ptkn", "accept_root"}

\* One instruction: its result is committed, and a root it pushed is added
\* to the history of pushes.
Call(op, signed, r) ==
    /\ Explored
    /\ r.err = "Ok" => budget > 0
    /\ Commit(op, signed, r)
    /\ budget' = IF r.err = "Ok" THEN budget - 1 ELSE budget
    /\ pushed' = IF r.err = "Ok" /\ op \in PushingOps
                 THEN Append(pushed, r.w.pool_state.current_root)
                 ELSE pushed
    /\ UNCHANGED build

\* The commitments an instruction gave to the tree: those of its arguments
\* when it succeeded, none when it failed.
Given(r, commitments) == IF r.err = "Ok" THEN leaves \o commitments ELSE leaves

Shield(a) ==
    /\ Call("shield", TRUE, shield(World, a))
    /\ leaves' = Given(shield(World, a), <<a.public_inputs.fields[3]>>)
    /\ UNCHANGED outside_flow

PrivateTransfer(a) ==
    /\ Call("private_transfer", TRUE, private_transfer(World, a))
    /\ leaves' = Given(private_transfer(World, a), a.output_commitments)
    /\ UNCHANGED outside_flow

UnshieldToOrigin(a) ==
    /\ Call("unshield_to_origin", TRUE, process_unshield(World, a, 0))
    /\ leaves' = Given(process_unshield(World, a, 0), a.output_commitments)
    /\ UNCHANGED outside_flow

UnshieldToPtkn(a) ==
    /\ Call("unshield_to_ptkn", TRUE, process_unshield(World, a, 1))
    /\ leaves' = Given(process_unshield(World, a, 1), a.output_commitments)
    /\ UNCHANGED outside_flow

AcceptRoot(authority, root) ==
    /\ Call("accept_root", authority = AuthorityKey,
            accept_root(World, authority, root))
    /\ UNCHANGED <<outside_flow, leaves>>

WriteNullifier(authority, nullifier) ==
    /\ Call("write_nullifier", authority = AuthorityKey,
            write_nullifier(World, authority, nullifier))
    /\ UNCHANGED <<outside_flow, leaves>>

\* ptf_vault::deposit called directly by a token holder.
VaultDeposit(amount) ==
    /\ Call("deposit", FALSE, deposit(World, amount))
    /\ UNCHANGED leaves
    /\ outside_flow' = (outside_flow \/ deposit(World, amount).err = "Ok")

\* ptf_vault::release called directly: the caller names any account as
\* pool_authority; is_signer is TRUE only for a key the caller holds, which
\* the pool's program-derived address is not.
VaultRelease(pool_authority, is_signer, amount) ==
    /\ pool_authority = PoolKey => ~is_signer
    /\ Call("release",
            is_signer /\ pool_authority = vault_state.pool_authority,
            release(World, pool_authority, is_signer, amount))
    /\ UNCHANGED leaves
    /\ outside_flow' = (outside_flow
                        \/ release(World, pool_authority, is_signer, amount).err = "Ok")

Next ==
    \/ \E a \in ShieldInputs(World, Amounts) : Shield(a)
    \/ \E a \in TransferInputs(World) : PrivateTransfer(a)
    \/ \E a \in UnshieldInputs(World, 0, Amounts) : UnshieldToOrigin(a)
    \/ \E a \in UnshieldInputs(World, 1, Amounts) : UnshieldToPtkn(a)
    \/ \E authority \in Signers, n \in {FreshNullifier(World), SpentNullifier(World)} :
         WriteNullifier(authority, Nullifier(n))
    \/ \E amount \in {0, 1} : VaultDeposit(amount)
    \/ \E k \in {PoolKey, UserKey}, is_signer \in BOOLEAN, amount \in {0, 1} :
         VaultRelease(k, is_signer, amount)

Spec == Init /\ [][Next]_vars

\* ------------------------------------------------- the root window alone
\* The authority pushes MAX_ROOTS + MaxExtraPushes fresh roots with
\* accept_root, and clients try every root pushed so far as old_root.
Range(seq) == {seq[i] : i \in DOMAIN seq}

TransferProbes(w, roots) ==
    {TransferArgs(w, FreshNullifier(w), FreshCommit(w), r) : r \in roots}

UnshieldProbes(w, roots) ==
    {UnshieldArgs(w, 0, 1, FreshNullifier(w), FreshCommit(w), r) : r \in roots}

InitRoots ==
    /\ build = [invariant_checks |-> FALSE, full_tree |-> FALSE, sbf |-> FALSE]
    /\ budget = MAX_ROOTS + MaxExtraPushes
    /\ InitAccounts(FEE_BPS_DEFAULT, FEATURE_PRIVATE_TRANSFER_ENABLED, FALSE, MaxFunds)

NextRoots ==
    \/ \E authority \in Signers : AcceptRoot(authority, BogusRoot(Len(pushed)))
    \/ \E a \in TransferProbes(World, Range(pushed) \cup {BogusRoot(0)}) :
         PrivateTransfer(a)
    \/ \E a \in UnshieldProbes(World, Range(pushed) \cup {BogusRoot(0)}) :
         UnshieldToOrigin(a)

SpecRoots == InitRoots /\ [][NextRoots]_vars

\* --------------------------------------------- the default-fee scenario
InitFees ==
    /\ build \in Builds
    /\ budget = MaxCalls
    /\ \E has_ptkn \in BOOLEAN :
         InitAccounts(FEE_BPS_DEFAULT, FEATURE_PRIVATE_TRANSFER_ENABLED,
                      has_ptkn, ScenarioFunds)

NextFees ==
    \/ \E a \in ShieldInputs(World, ScenarioAmounts) : Shield(a)
    \/ \E a \in TransferInputs(World) : PrivateTransfer(a)
    \/ \E a \in UnshieldInputs(World, 0, ScenarioAmounts) : UnshieldToOrigin(a)
    \/ \E a \in UnshieldInputs(World, 1, ScenarioAmounts) : UnshieldToPtkn(a)

SpecFees == InitFees /\ [][NextFees]_vars

\* ------------------------------------------------------ the twin mint path
\* Pools initialised with and without a twin mint, beside a factory that is
\* paused or not and whose mint mapping has a twin token or not; clients
\* shield and unshield to the twin mint.
InitTwin ==
    /\ build \in Builds
    /\ budget = MaxCalls
    /\ \E has_ptkn \in BOOLEAN, factory_now \in [paused : BOOLEAN, has_ptkn : BOOLEAN] :
         InitAccountsWith(5000, FEATURE_PRIVATE_TRANSFER_ENABLED, has_ptkn,
                          MaxFunds, factory_now)

NextTwin ==
    \/ \E a \in ShieldInputs(World, 1..MaxFunds) : Shield(a)
    \/ \E a \in UnshieldInputs(World, 1, Amounts) : UnshieldToPtkn(a)

SpecTwin == InitTwin /\ [][NextTwin]_vars

\* ------------------------------------------------- the value ledger alone
\* The methods of NoteLedger called one after another on the same ledger. A
\* method takes &mut self: what it wrote before an Err return stays in the
\* ledger it was called on.
LedgerCall(op, r) ==
    /\ budget > 0
    /\ budget' = budget - 1
    /\ note_ledger' = r.ledger
    /\ last' = [op |-> op, err |-> r.err, signed |-> FALSE]
    /\ UNCHANGED <<build, pool_state, commitment_tree, nullifier_set, hook_config,
                   vault_state, vault_token_amount, wallet, twin_supply,
                   factory, outside_flow, pushed, leaves>>

RecordShield(amount) ==
    LedgerCall("record_shield", record_shield(note_ledger, amount))

RecordTransfer(nullifiers, amount_commitments) ==
    LedgerCall("record_transfer",
               record_transfer(note_ledger, nullifiers, amount_commitments))

RecordUnshield(total_spent, nullifiers, output_amount_commitments) ==
    LedgerCall("record_unshield",
               record_unshield(note_ledger, total_spent, nullifiers,
                               output_amount_commitments))

InitLedger ==
    /\ build = [invariant_checks |-> FALSE, full_tree |-> FALSE, sbf |-> FALSE]
    /\ budget = MaxCalls
    /\ InitAccounts(FEE_BPS_DEFAULT, FEATURE_PRIVATE_TRANSFER_ENABLED, FALSE, MaxFunds)

NextLedger ==
    \/ \E amount \in Amounts : RecordShield(amount)
    \/ \E k \in 0..1 :
         RecordTransfer(SubSeq(<<Nullifier(1)>>, 1, k), <<AmountCommit(1)>>)
    \/ \E total_spent \in Amounts, k \in 0..1 :
         RecordUnshield(total_spent, <<Nullifier(1)>>,
                        SubSeq(<<AmountCommit(1)>>, 1, k))

SpecLedger == InitLedger /\ [][NextLedger]_vars

\* --------------------------------------------------- the accumulator alone
\* The methods of CommitmentTree called one after another on the same tree,
\* which keeps the leaves inserted before an Err return.
TreeCall(op, r, commitments) ==
    /\ commitment_tree' = r.tree
    /\ leaves' = leaves \o SubSeq(commitments, 1,
                                  r.tree.next_index - commitment_tree.next_index)
    /\ last' = [op |-> op, err |-> r.err, signed |-> FALSE]
    /\ UNCHANGED <<build, pool_state, nullifier_set, note_ledger, hook_config,
                   vault_state, vault_token_amount, wallet, twin_supply,
                   factory, outside_flow, budget, pushed>>

AppendNote(commitment) ==
    TreeCall("append_note", insert_leaf(commitment_tree, commitment),
             <<commitment>>)

AppendMany(commitments, amount_commitments) ==
    TreeCall("append_many",
             append_many(commitment_tree, commitments, amount_commitments),
             commitments)

\* The commitments given to the accumulator, and the batches made of them.
TreeCommitments == {Commitment(c) : c \in 1..3}
TreeBatches ==
    {<<>>} \cup {<<c>> : c \in TreeCommitments}
           \cup {<<c, d>> : c \in TreeCommitments, d \in TreeCommitments}

InitTree ==
    /\ build = [invariant_checks |-> FALSE, full_tree |-> TRUE, sbf |-> FALSE]
    /\ budget = MaxCalls
    /\ InitAccounts(FEE_BPS_DEFAULT, FEATURE_PRIVATE_TRANSFER_ENABLED, FALSE, MaxFunds)

NextTree ==
    \/ \E c \in TreeCommitments : AppendNote(c)
    \/ \E cs \in TreeBatches, short \in {-1, 0, 1} :
         AppendMany(cs, [i \in 1..(Len(cs) - short) |-> AmountCommit(i)])

SpecTree == InitTree /\ [][NextTree]_vars

\* ------------------------------------------------- the pool configuration
\* From the accounts before initialize_pool: the pool is created with any
\* fee_bps and feature bits, its authority and others call set_fee and
\* set_features, and clients shield, transfer and unshield.
InitializePool(a) ==
    /\ Call("initialize_pool", TRUE, initialize_pool(World, a))
    /\ UNCHANGED <<outside_flow, leaves>>

SetFee(authority, fee_bps) ==
    /\ pool_created(World)
    /\ Call("set_fee", authority = AuthorityKey,
            set_fee(World, authority, fee_bps))
    /\ UNCHANGED <<outside_flow, leaves>>

SetFeatures(authority, features) ==
    /\ pool_created(World)
    /\ Call("set_features", authority = AuthorityKey,
            set_features(World, authority, features))
    /\ UNCHANGED <<outside_flow, leaves>>

\* fee_bps arguments: u16 values inside and outside [0, MAX_BPS].
FeeArgs == {0, FEE_BPS_DEFAULT, MAX_BPS, MAX_BPS + 1, U16 - 1}

InitConfig ==
    /\ build = [invariant_checks |-> FALSE, full_tree |-> FALSE, sbf |-> FALSE]
    /\ budget = MaxCalls
    /\ pool_state = pool_zero
    /\ commitment_tree = tree_zero
    /\ nullifier_set = nullifier_init
    /\ note_ledger = ledger_init
    /\ hook_config = hook_init
    /\ vault_state = [pool_authority |-> PoolKey]
    /\ vault_token_amount = 0
    /\ wallet = ScenarioFunds
    /\ twin_supply = 0
    /\ factory = [paused |-> FALSE, has_ptkn |-> FALSE]
    /\ last = [op |-> "none", err |-> "Ok", signed |-> FALSE]
    /\ outside_flow = FALSE
    /\ pushed = <<>>
    /\ leaves = <<>>

NextConfig ==
    \/ \E fee_bps \in FeeArgs, features \in {0, FEATURE_PRIVATE_TRANSFER_ENABLED} :
         InitializePool([fee_bps |-> fee_bps, features |-> features,
                         twin_mint |-> NoAccount])
    \/ \E authority \in Signers, fee_bps \in FeeArgs : SetFee(authority, fee_bps)
    \/ \E authority \in Signers, features \in 0..3 :
         SetFeatures(authority, features)
    \/ \E a \in TransferInputs(World) : pool_created(World) /\ PrivateTransfer(a)
    \/ \E amount \in ScenarioAmounts :
         /\ pool_created(World)
         /\ Shield(ShieldArgs(World, amount, FreshCommit(World)))
    \/ \E amount \in {19, 9500} :
         /\ pool_created(World)
         /\ UnshieldToOrigin(UnshieldArgs(World, 0, amount, FreshNullifier(World),
                                          FreshCommit(World),
                                          pool_state.current_root))

SpecConfig == InitConfig /\ [][NextConfig]_vars

\* ----------------------------------------------------------- the hooks
\* The authority and others configure the hooks and switch the feature bits;
\* clients shield with the remaining accounts of their choice, and the
\* account check is called on its own with every provided list.
ConfigureHooks(authority, a) ==
    /\ Call("configure_hooks", authority = AuthorityKey,
            configure_hooks(World, authority, a))
    /\ UNCHANGED <<outside_flow, leaves>>

\* validate_hook_keys on the stored configuration and a provided list.
ValidateHookKeys(provided_accounts) ==
    /\ Explored
    /\ last' = [op |-> "validate_hook_keys",
                err |-> validate_hook_keys(hook_config.required_accounts,
                                           hook_config.mode, provided_accounts),
                signed |-> FALSE]
    /\ UNCHANGED <<build, accounts, outside_flow, budget, pushed, leaves>>

\* Required account lists: empty, one key, two keys in both orders, one key
\* twice, and one list longer than MAX_REQUIRED_ACCOUNTS.
RequiredLists ==
    {<<>>, <<HookAccA>>, <<HookAccA, HookAccB>>, <<HookAccB, HookAccA>>,
     <<HookAccA, HookAccA>>,
     [i \in 1..(MAX_REQUIRED_ACCOUNTS + 1) |-> HookAccA]}

\* Provided account lists: every list of at most three of three keys.
HookKeys == {HookAccA, HookAccB, UserKey}
ProvidedLists ==
    {<<>>} \cup {<<k>> : k \in HookKeys}
           \cup {<<k, l>> : k \in HookKeys, l \in HookKeys}
           \cup {<<k, l, m>> : k \in HookKeys, l \in HookKeys, m \in HookKeys}

HookArgs ==
    [post_shield_program : {DefaultKey, HookProgram},
     post_unshield_program : {DefaultKey, HookProgram},
     required_accounts : RequiredLists,
     mode : {"Strict", "Lenient"}]

InitHooks ==
    /\ build = [invariant_checks |-> FALSE, full_tree |-> FALSE, sbf |-> FALSE]
    /\ budget = MaxCalls
    /\ \E features \in {FEATURE_PRIVATE_TRANSFER_ENABLED,
                        FEATURE_PRIVATE_TRANSFER_ENABLED + FEATURE_HOOKS_ENABLED} :
         InitAccounts(FEE_BPS_DEFAULT, features, FALSE, MaxFunds)

NextHooks ==
    \/ \E authority \in Signers, a \in HookArgs : ConfigureHooks(authority, a)
    \/ \E authority \in Signers, features \in 0..3 :
         SetFeatures(authority, features)
    \/ \E provided \in ProvidedLists, hook_ok \in BOOLEAN :
         Shield([ShieldArgs(World, 1, FreshCommit(World)) EXCEPT
                   !.remaining_accounts = provided, !.hook_ok = hook_ok])
    \/ \E provided \in ProvidedLists : ValidateHookKeys(provided)

SpecHooks == InitHooks /\ [][NextHooks]_vars

\* ------------------------------------------------------------ the verifier
\* The verifier compiled for either target; clients shield, transfer and
\* unshield with valid, invalid and empty proofs, with the public inputs of
\* the call or with none.
ProofKinds == {"valid", "invalid", "empty"}

ProofInputs(a) ==
    {[a EXCEPT !.proof = proof] : proof \in ProofKinds}
    \cup {[a EXCEPT !.proof = proof,
                    !.public_inputs = [fields |-> <<>>, ragged |-> FALSE]] :
            proof \in ProofKinds}

ProvenShields(w) == ProofInputs(ShieldArgs(w, 1, FreshCommit(w)))
ProvenTransfers(w) ==
    ProofInputs(TransferArgs(w, FreshNullifier(w), FreshCommit(w),
                             w.pool_state.current_root))
ProvenUnshields(w) ==
    ProofInputs(UnshieldArgs(w, 0, 1, FreshNullifier(w), FreshCommit(w),
                             w.pool_state.current_root))

InitVerifier ==
    /\ build \in [invariant_checks : {FALSE}, full_tree : BOOLEAN, sbf : BOOLEAN]
    /\ budget = MaxCalls
    /\ InitAccounts(FEE_BPS_DEFAULT, FEATURE_PRIVATE_TRANSFER_ENABLED, FALSE, MaxFunds)

NextVerifier ==
    \/ \E a \in ProvenShields(World) : Shield(a)
    \/ \E a \in ProvenTransfers(World) : PrivateTransfer(a)
    \/ \E a \in ProvenUnshields(World) : UnshieldToOrigin(a)

SpecVerifier == InitVerifier /\ [][NextVerifier]_vars

\* ------------------------------------------------- the factory's timelock
\* ptf_factory beside its timelock: here the `factory` account record also
\* holds FactoryState.timelock_seconds and default_features, the fields
\* features, has_fee_override and fee_bps_override of the MintMapping of
\* OriginMintKey, the TimelockEntry accounts by salt (NoEntry: no account at
\* that address) and the Clock sysvar's unix_timestamp.
NoEntry == [executed |-> TRUE, execute_after |-> 0, queued_at |-> 0,
            action |-> [kind |-> "none"]]
\* Option<T>: None, and Some(x).
None == <<>>
Some(x) == <<x>>
I64_MAX == Pow2(WordBits - 1) - 1

\* A mutant of ensure_direct_update_allowed: direct updates are always allowed.
ensure_direct_update_always(state) == "Ok"

\* fn ensure_direct_update_allowed
ensure_direct_update_allowed(state) ==
    IF state.timelock_seconds > 0 THEN "TimelockOnlyQueue" ELSE "Ok"

\* fn apply_mint_update (with prepare_ptkn_mint: the ptkn mint account, when
\* it is passed, is a mint the factory can take over); the mapping fields and
\* the error are returned together, and an error discards the fields.
apply_mint_update(f, params, ptkn_mint) ==
    LET f1 == IF params.fee_bps_override # None
              THEN [f EXCEPT !.fee_bps_override = params.fee_bps_override[1],
                             !.has_fee_override = TRUE]
              ELSE f
        f2 == IF params.features # None
              THEN [f1 EXCEPT !.features = params.features[1]]
              ELSE f1
    IN IF params.fee_bps_override # None /\ params.fee_bps_override[1] > MAX_BPS
       THEN [err |-> "InvalidFeeBps", f |-> f]
       ELSE IF params.enable_ptkn = None THEN [err |-> "Ok", f |-> f2]
       ELSE IF params.enable_ptkn = Some(FALSE)
       THEN [err |-> "Ok", f |-> [f2 EXCEPT !.has_ptkn = FALSE]]
       ELSE IF ~f2.has_ptkn /\ ptkn_mint = NoAccount
       THEN [err |-> "PtknMintMissing", f |-> f]
       ELSE [err |-> "Ok", f |-> [f2 EXCEPT !.has_ptkn = TRUE]]

\* ptf_factory::set_default_features
set_default_features(w, authority, default_features) ==
    IF ~has_one_authority(authority) THEN Err(w, "ConstraintHasOne")
    ELSE IF ensure_direct_update_allowed(w.factory) # "Ok"
    THEN Err(w, ensure_direct_update_allowed(w.factory))
    ELSE Ok([w EXCEPT !.factory.default_features = default_features])

\* ptf_factory::update_mint
update_mint(w, authority, params, ptkn_mint) ==
    LET r == apply_mint_update(w.factory, params, ptkn_mint)
    IN IF ~has_one_authority(authority) THEN Err(w, "ConstraintHasOne")
       ELSE IF w.factory.paused THEN Err(w, "Paused")
       ELSE IF ensure_direct_update_allowed(w.factory) # "Ok"
       THEN Err(w, ensure_direct_update_allowed(w.factory))
       ELSE IF r.err # "Ok" THEN Err(w, r.err)
       ELSE Ok([w EXCEPT !.factory = r.f])

\* ptf_factory::pause and ptf_factory::unpause
pause(w, authority, paused) ==
    IF ~has_one_authority(authority) THEN Err(w, "ConstraintHasOne")
    ELSE Ok([w EXCEPT !.factory.paused = paused])

\* ptf_factory::queue_timelock_action: `init` of the entry account fails when
\* the address is in use; mint_mapping is the origin mint of the mapping
\* account passed, or NoAccount.
queue_timelock_action(w, authority, salt, action, mint_mapping) ==
    LET f == w.factory
        execute_after == f.unix_timestamp + f.timelock_seconds
    IN IF ~has_one_authority(authority) THEN Err(w, "ConstraintHasOne")
       ELSE IF f.entries[salt] # NoEntry THEN Err(w, "AccountAlreadyInUse")
       ELSE IF f.paused THEN Err(w, "Paused")
       ELSE IF execute_after > I64_MAX THEN Err(w, "TimelockOverflow")
       ELSE IF action.kind = "UpdateMint" /\ mint_mapping = NoAccount
       THEN Err(w, "TimelockMissingMapping")
       ELSE IF action.kind = "UpdateMint" /\ mint_mapping # action.origin_mint
       THEN Err(w, "OriginMintMismatch")
       ELSE Ok([w EXCEPT !.factory.entries[salt] =
                           [executed |-> FALSE,
                            execute_after |-> execute_after,
                            queued_at |-> f.unix_timestamp,
                            action |-> action]])

\* The match of execute_timelock_action on the entry's action, and the end
\* of the handler; the entry account is closed when the instruction succeeds.
apply_timelock_action(w, salt, mint_mapping, ptkn_mint) ==
    LET f == w.factory
        entry == f.entries[salt]
        r == apply_mint_update(f, entry.action.params, ptkn_mint)
    IN IF entry.action.kind = "SetDefaultFeatures"
       THEN Ok([w EXCEPT !.factory.default_features = entry.action.features,
                         !.factory.entries[salt] = NoEntry])
       ELSE IF entry.action.kind = "PauseFactory"
       THEN Ok([w EXCEPT !.factory.paused = TRUE,
                         !.factory.entries[salt] = NoEntry])
       ELSE IF entry.action.kind = "UnpauseFactory"
       THEN Ok([w EXCEPT !.factory.paused = FALSE,
                         !.factory.entries[salt] = NoEntry])
       ELSE IF mint_mapping = NoAccount THEN Err(w, "TimelockMissingMapping")
       ELSE IF mint_mapping # entry.action.origin_mint
       THEN Err(w, "OriginMintMismatch")
       ELSE IF r.err # "Ok" THEN Err(w, r.err)
       ELSE Ok([w EXCEPT !.factory = [r.f EXCEPT !.entries[salt] = NoEntry]])

\* A mutant of execute_timelock_action: the clock is not compared.
execute_timelock_action_at_once(w, salt, mint_mapping, ptkn_mint) ==
    IF w.factory.entries[salt] = NoEntry THEN Err(w, "AccountNotInitialized")
    ELSE IF w.factory.entries[salt].executed THEN Err(w, "TimelockConsumed")
    ELSE apply_timelock_action(w, salt, mint_mapping, ptkn_mint)

\* ptf_factory::execute_timelock_action: any signer executes.
execute_timelock_action(w, salt, mint_mapping, ptkn_mint) ==
    IF w.factory.entries[salt] = NoEntry THEN Err(w, "AccountNotInitialized")
    ELSE IF w.factory.entries[salt].executed THEN Err(w, "TimelockConsumed")
    ELSE IF w.factory.unix_timestamp < w.factory.entries[salt].execute_after
    THEN Err(w, "TimelockNotReady")
    ELSE apply_timelock_action(w, salt, mint_mapping, ptkn_mint)

\* ptf_factory::cancel_timelock_action: the entry account is closed.
cancel_timelock_action(w, authority, salt) ==
    IF w.factory.entries[salt] = NoEntry THEN Err(w, "AccountNotInitialized")
    ELSE IF ~has_one_authority(authority) THEN Err(w, "ConstraintHasOne")
    ELSE IF w.factory.entries[salt].executed THEN Err(w, "TimelockConsumed")
    ELSE Ok([w EXCEPT !.factory.entries[salt] = NoEntry])

\* The instructions of the factory, and the clock moving on.
FactoryCall(op, signed, r) ==
    /\ Call(op, signed, r)
    /\ UNCHANGED <<outside_flow, leaves>>

AdvanceClock ==
    /\ Explored
    /\ factory.unix_timestamp < MaxClock
    /\ factory' = [factory EXCEPT !.unix_timestamp = @ + 1]
    /\ last' = [op |-> "advance_clock", err |-> "Ok", signed |-> FALSE]
    /\ UNCHANGED <<build, pool_state, commitment_tree, nullifier_set,
                   note_ledger, hook_config, vault_state, vault_token_amount,
                   wallet, twin_supply, outside_flow, budget, pushed, leaves>>

\* UpdateMintParams: nothing, a feature byte, a feature byte with a fee, a fee
\* above MAX_BPS, and the twin mint switched on and off.
NoParams == [enable_ptkn |-> None, features |-> None, fee_bps_override |-> None]
MintParams ==
    {NoParams,
     [NoParams EXCEPT !.features = Some(FEATURE_HOOKS_ENABLED)],
     [NoParams EXCEPT !.features = Some(FEATURE_PRIVATE_TRANSFER_ENABLED),
                      !.fee_bps_override = Some(0)],
     [NoParams EXCEPT !.fee_bps_override = Some(MAX_BPS + 1)],
     [NoParams EXCEPT !.enable_ptkn = Some(TRUE)],
     [NoParams EXCEPT !.enable_ptkn = Some(FALSE)]}

\* TimelockAction
TimelockActions ==
    {[kind |-> "SetDefaultFeatures", features |-> features] :
        features \in {0, FEATURE_HOOKS_ENABLED}}
    \cup {[kind |-> "UpdateMint", origin_mint |-> OriginMintKey, params |-> p] :
             p \in MintParams}
    \cup {[kind |-> "UpdateMint", origin_mint |-> OtherKey,
           params |-> [NoParams EXCEPT !.features = Some(FEATURE_HOOKS_ENABLED)]],
          [kind |-> "PauseFactory"], [kind |-> "UnpauseFactory"]}

\* One TimelockEntry address (one salt).
Salts == {0}
MintMappings == {NoAccount, OriginMintKey}

\* After initialize_factory with a timelock chosen by the payer and
\* register_mint of OriginMintKey with the default features.
InitTimelock ==
    /\ build = [invariant_checks |-> FALSE, full_tree |-> FALSE, sbf |-> FALSE]
    /\ budget = MaxCalls
    /\ \E timelock_seconds \in {0, MaxClock - 1, I64_MAX} :
         InitAccountsWith(FEE_BPS_DEFAULT, FEATURE_PRIVATE_TRANSFER_ENABLED,
                          FALSE, MaxFunds,
                          [paused |-> FALSE,
                           has_ptkn |-> FALSE,
                           timelock_seconds |-> timelock_seconds,
                           default_features |-> 0,
                           features |-> 0,
                           has_fee_override |-> FALSE,
                           fee_bps_override |-> 0,
                           entries |-> [salt \in Salts |-> NoEntry],
                           unix_timestamp |-> 0])

NextTimelock ==
    \/ \E authority \in Signers, features \in {0, FEATURE_HOOKS_ENABLED} :
         FactoryCall("set_default_features", authority = AuthorityKey,
                     set_default_features(World, authority, features))
    \/ \E authority \in Signers, p \in MintParams, ptkn_mint \in {NoAccount, TwinMintKey} :
         FactoryCall("update_mint", authority = AuthorityKey,
                     update_mint(World, authority, p, ptkn_mint))
    \/ \E authority \in Signers, paused \in BOOLEAN :
         FactoryCall(IF paused THEN "pause" ELSE "unpause",
                     authority = AuthorityKey, pause(World, authority, paused))
    \/ \E authority \in Signers, salt \in Salts, action \in TimelockActions,
          mint_mapping \in MintMappings :
         FactoryCall("queue_timelock_action", authority = AuthorityKey,
                     queue_timelock_action(World, authority, salt, action,
                                           mint_mapping))
    \/ \E salt \in Salts, mint_mapping \in MintMappings,
          ptkn_mint \in {NoAccount, TwinMintKey} :
         FactoryCall("execute_timelock_action", FALSE,
                     execute_timelock_action(World, salt, mint_mapping, ptkn_mint))
    \/ \E authority \in Signers, salt \in Salts :
         FactoryCall("cancel_timelock_action", authority = AuthorityKey,
                     cancel_timelock_action(World, authority, salt))
    \/ AdvanceClock

SpecTimelock == InitTimelock /\ [][NextTimelock]_vars

\* ------------------------------------------- the root window under use
\* Clients alone fill the window of recent roots: shields, unshields, and
\* private transfers, among them transfers without nullifiers and outputs,
\* which push the unchanged root once more.
IdleTransfer(w) ==
    [TransferArgs(w, FreshNullifier(w), FreshCommit(w), w.pool_state.current_root)
       EXCEPT !.nullifiers = <<>>,
              !.output_commitments = <<>>,
              !.output_amount_commitments = <<>>,
              !.new_root = w.commitment_tree.current_root]

InitWindow ==
    /\ build \in [invariant_checks : {FALSE}, full_tree : BOOLEAN, sbf : {FALSE}]
    /\ budget = MAX_ROOTS + 2
    /\ InitAccounts(FEE_BPS_DEFAULT, FEATURE_PRIVATE_TRANSFER_ENABLED, FALSE, MaxFunds)

NextWindow ==
    \/ Shield(ShieldArgs(World, 1, FreshCommit(World)))
    \/ PrivateTransfer(IdleTransfer(World))
    \/ UnshieldToOrigin(UnshieldArgs(World, 0, 1, FreshNullifier(World),
                                     FreshCommit(World), pool_state.current_root))

SpecWindow == InitWindow /\ [][NextWindow]_vars

\* --------------------------------------------- the authority's roots
\* The root window again, with shields: the authority pushes roots that are
\* not the tree's, clients probe, and once the tree's root has left the
\* window the authority may push it again.
InitBlocked ==
    /\ build = [invariant_checks |-> FALSE, full_tree |-> FALSE, sbf |-> FALSE]
    /\ budget = MAX_ROOTS + 2
    /\ InitAccounts(FEE_BPS_DEFAULT, FEATURE_PRIVATE_TRANSFER_ENABLED, FALSE, 1)

NextBlocked ==
    \/ NextRoots
    \/ /\ commitment_tree.current_root
            \notin {pool_state.recent_roots[i] : i \in 0..(pool_state.roots_len - 1)}
       /\ AcceptRoot(AuthorityKey, commitment_tree.current_root)
    \/ \E proof \in {"valid", "invalid"} :
         Shield([ShieldArgs(World, 1, FreshCommit(World)) EXCEPT !.proof = proof])

SpecBlocked == InitBlocked /\ [][NextBlocked]_vars

\* ----------------------------------------------------------------- claims
MutatingOps == {"shield", "private_transfer", "unshield_to_origin", "unshield_to_ptkn"}

\* The supply identity on the accounts as they stand.
Conserved ==
    vault_token_amount
        = twin_supply + note_ledger.live_value + pool_state.protocol_fees

\* C1. Conservation: as long as the vault balance and the twin supply are
\* changed only by the pool's own calls, after each successful shield,
\* private_transfer or unshield the vault balance equals twin supply + live
\* value + protocol fees.
C1_Conservation ==
    (~outside_flow /\ last.op \in MutatingOps /\ last.err = "Ok") => Conserved

\* C1 witness: an unshield to the origin mint that charged a fee succeeded
\* on a pool nobody tampered with.
C1_Witness ==
    /\ ~outside_flow
    /\ last = [op |-> "unshield_to_origin", err |-> "Ok", signed |-> TRUE]
    /\ pool_state.protocol_fees > 0
    /\ vault_token_amount > 0

\* C2. The invariant check is the last step of every mutating operation:
\* none of shield, private_transfer, unshield_to_origin and unshield_to_ptkn
\* succeeds when at its end the vault balance differs from twin supply + live
\* value + protocol fees.
C2_CheckedLast ==
    (last.op \in MutatingOps /\ last.err = "Ok") => Conserved

\* The nullifiers recorded in the registry.
Recorded == {nullifier_set.entries[i] : i \in 0..(nullifier_set.count - 1)}

\* C3, the state part: a recorded nullifier is refused by insert, by
\* write_nullifier and by the nullifier loop, alone or after a fresh one, and
\* a nullifier repeated within one call is refused.
C3_Refused ==
    LET fresh == Nullifier(FreshNullifier(World))
    IN /\ \A n \in Recorded :
            /\ NullifierSet_insert(nullifier_set, n)
                 = [err |-> "NullifierReuse", set |-> nullifier_set]
            /\ write_nullifier(World, AuthorityKey, n).err = "NullifierReuse"
            /\ insert_nullifiers(nullifier_set, <<n>>).err = "NullifierReuse"
            /\ insert_nullifiers(nullifier_set, <<fresh, n>>).err = "NullifierReuse"
       /\ insert_nullifiers(nullifier_set, <<fresh, fresh>>).err = "NullifierReuse"

\* C3, the step part: an instruction that fails leaves the registry as it
\* was; one that succeeds adds nothing (shield, the vault calls) or exactly
\* one entry, after the entries recorded before.
C3_Counted ==
    /\ last'.err # "Ok" => nullifier_set' = nullifier_set
    /\ nullifier_set'.count \in {nullifier_set.count, nullifier_set.count + 1}
    /\ last'.op \in {"write_nullifier", "private_transfer",
                     "unshield_to_origin", "unshield_to_ptkn"} /\ last'.err = "Ok"
         => nullifier_set'.count = nullifier_set.count + 1
    /\ \A i \in 0..(nullifier_set.count - 1) :
         nullifier_set'.entries[i] = nullifier_set.entries[i]

\* C3. No double-spend: once a nullifier is recorded, every later attempt to
\* record it, in the same call or a later one, fails with NullifierReuse; the
\* registry count grows by exactly one per successful insert and not at all
\* on a failed one.
C3_NoDoubleSpend == [](C3_Refused) /\ [][C3_Counted]_vars

\* C3 witness: a call was refused with NullifierReuse on a registry that
\* holds two nullifiers.
C3_Witness ==
    /\ last.err = "NullifierReuse"
    /\ last.op \in {"private_transfer", "unshield_to_origin"}
    /\ nullifier_set.count = 2

\* C4. Vault release is under single-authority access control: a release
\* that the stored pool authority did not sign moves no token and fails.
C4_ReleaseAuthorised ==
    [][(last'.op = "release" /\ ~last'.signed)
         => (last'.err # "Ok" /\ vault_token_amount' = vault_token_amount)]_vars

\* C5. Root staleness tolerance: private_transfer and unshield do not reject
\* an otherwise valid call for its old_root when that root is any root of
\* the window.
C5_StaleRootAccepted ==
    \A i \in 0..(pool_state.roots_len - 1) :
        LET r == pool_state.recent_roots[i]
            n == FreshNullifier(World)
            c == FreshCommit(World)
        IN /\ private_transfer(World, TransferArgs(World, n, c, r)).err
                \notin {"UnknownRoot", "RootMismatch"}
           /\ process_unshield(World, UnshieldArgs(World, 0, 1, n, c, r), 0).err
                \notin {"UnknownRoot", "RootMismatch"}

Latest(k) ==
    {pushed[i] : i \in (IF Len(pushed) > k THEN Len(pushed) - k + 1 ELSE 1)..Len(pushed)}

C8_BreachHalts ==
    [][(last.err = "InvariantBreach" /\ ~Conserved /\ last'.op \in MutatingOps)
         => last'.err # "Ok"]_vars

\* The pool of the scenario before its first call, and after its shield.
ScenarioStart ==
    /\ pool_state.fee_bps = FEE_BPS_DEFAULT
    /\ note_ledger = ledger_init
    /\ pool_state.protocol_fees = 0
    /\ vault_token_amount = 0

ScenarioShielded ==
    /\ pool_state.fee_bps = FEE_BPS_DEFAULT
    /\ note_ledger.total_minted = 10000
    /\ note_ledger.notes_created = 1
    /\ note_ledger.total_spent = 0
    /\ vault_token_amount = 10000

ShieldOf(amount) ==
    /\ last'.op = "shield" /\ last'.err = "Ok"
    /\ vault_token_amount' = vault_token_amount + amount

UnshieldOf(amount) ==
    /\ last'.op = "unshield_to_origin" /\ last'.err = "Ok"
    /\ vault_token_amount' = vault_token_amount - amount

C12_Guarded ==
    \A amount \in Amounts :
        LET total == amount + calculate_fee(pool_state, amount)
            n == FreshNullifier(World)
            c == FreshCommit(World)
            cur == pool_state.current_root
        IN total > note_ledger.live_value
             => /\ ~ensure_capacity(note_ledger, total)
                /\ record_unshield(note_ledger, total, <<Nullifier(n)>>,
                                   <<AmountCommit(c)>>).err = "InsufficientLiquidity"
                /\ \A mode \in {0, 1} :
                     process_unshield(World,
                                      UnshieldArgs(World, mode, amount, n, c, cur),
                                      mode).err = "InsufficientLiquidity"

\* C12, the step part: a call refused with InsufficientLiquidity records no
\* nullifier, inserts no leaf, changes no ledger counter and no fee, and
\* releases and mints nothing.
C12_NothingMoved ==
    last'.err = "InsufficientLiquidity" => UNCHANGED accounts

C17_Refused ==
    LET n == Nullifier(FreshNullifier(World))
        c == FreshCommit(World)
        cur == pool_state.current_root
        t == TransferArgs(World, FreshNullifier(World), c, cur)
        u == UnshieldArgs(World, 0, 1, FreshNullifier(World), c, cur)
        fee == calculate_fee(pool_state, 1)
        lists == {<<n, n>>} \cup UNION {{<<s>>, <<n, s>>, <<s, n>>} : s \in Recorded}
    IN \A l \in lists :
         /\ private_transfer(World, [t EXCEPT !.nullifiers = l]).err
              = "NullifierReuse"
         /\ ensure_capacity(note_ledger, 1 + fee)
              => process_unshield(World,
                                  WithFields([u EXCEPT !.nullifiers = l], 0, fee),
                                  0).err = "NullifierReuse"

\* C17, the step part: a call refused with NullifierReuse records none of
\* its nullifiers, inserts no leaf and leaves root window and ledger alone.
C17_NothingRecorded ==
    last'.err = "NullifierReuse"
      => UNCHANGED <<nullifier_set, commitment_tree, pool_state, note_ledger,
                     leaves, pushed>>

\* C17. Batch rejection on duplicates: a private_transfer or unshield whose
\* nullifier list holds a recorded nullifier or the same value twice is
\* rejected as a whole.
C17_BatchRejected == [](C17_Refused) /\ [][C17_NothingRecorded]_vars

\* C17 witness: a private_transfer was refused with NullifierReuse by a
\* registry that had room for the first nullifier of the list.
C17_Witness ==
    /\ last = [op |-> "private_transfer", err |-> "NullifierReuse", signed |-> TRUE]
    /\ nullifier_set.count = 1
    /\ nullifier_set.count < MAX_NULLIFIERS


\* C18, the state part: on a pool without twin mint, or beside a mint
\* mapping without twin token, no unshield to the twin mint succeeds, and
\* one that is otherwise valid and within the live value is refused with
\* TwinMintNotConfigured.
C18_Refused ==
    (~pool_state.twin_mint_enabled \/ ~factory.has_ptkn)
      => /\ \A a \in UnshieldInputs(World, 1, Amounts) :
              process_unshield(World, a, 1).err # "Ok"
         /\ \A amount \in Amounts, twin_mint \in {NoAccount, TwinMintKey} :
              LET a == UnshieldArgs(World, 1, amount, FreshNullifier(World),
                                    FreshCommit(World), pool_state.current_root)
                  total == amount + calculate_fee(pool_state, amount)
              IN (ensure_capacity(note_ledger, total)
                  /\ twin_mint_check(pool_state, twin_mint) = "Ok")
                   => process_unshield(World, [a EXCEPT !.twin_mint = twin_mint],
                                       1).err = "TwinMintNotConfigured"

\* C18, the step part: an unshield to the twin mint on such a pool fails,
\* mints nothing and leaves nullifier registry, tree, ledger, fees and root
\* window as they were.
C18_NothingMinted ==
    (last'.op = "unshield_to_ptkn"
     /\ (~pool_state.twin_mint_enabled \/ ~factory.has_ptkn))
      => /\ last'.err # "Ok"
         /\ UNCHANGED <<accounts, pushed, leaves>>

\* C18. unshield_to_twin requires twin-asset support: without it the call
\* fails with TwinMintNotConfigured and changes nothing.
C18_TwinRequired == [](C18_Refused) /\ [][C18_NothingMinted]_vars

\* C18 witness: a pool without twin mint that holds live value refused an
\* unshield to the twin mint with TwinMintNotConfigured.
C18_Witness ==
    /\ last = [op |-> "unshield_to_ptkn", err |-> "TwinMintNotConfigured",
               signed |-> TRUE]
    /\ ~pool_state.twin_mint_enabled
    /\ note_ledger.live_value > 0

\* C19. unshield_to_twin performs the twin mint: on a pool with the twin
\* mint enabled, beside a factory that is not paused and a mapping with twin
\* token, an unshield of one token to the twin mint with the current root, an
\* accepted proof, matching public inputs, a fresh nullifier and enough live
\* value succeeds, and the twin supply grows by the amount.
C19_TwinMintSucceeds ==
    LET a == UnshieldArgs(World, 1, 1, FreshNullifier(World),
                          FreshCommit(World), pool_state.current_root)
        r == process_unshield(World, a, 1)
    IN (pool_state.twin_mint_enabled /\ factory.has_ptkn /\ ~factory.paused
        /\ ensure_capacity(note_ledger, 1 + calculate_fee(pool_state, 1)))
         => /\ r.err = "Ok"
            /\ r.w.twin_supply = twin_supply + 1


\* C13. Ledger invariant: after any sequence of record_shield,
\* record_transfer and record_unshield calls, successful or failed,
\* live_value is not negative and equals total_minted - total_spent.
C13_LedgerInvariant ==
    /\ note_ledger.live_value >= 0
    /\ note_ledger.live_value = note_ledger.total_minted - note_ledger.total_spent


\* The root of the tree of height h over the leaves ls, computed from the
\* leaves alone: an empty subtree of height h hashes to zeroes(h).
RECURSIVE subtree(_, _, _)
subtree(ls, h, i) ==
    IF i * Pow2(h) >= Len(ls) THEN zeroes(h)
    ELSE IF h = 0 THEN ls[i + 1]
    ELSE poseidon_hash(subtree(ls, h - 1, 2 * i), subtree(ls, h - 1, 2 * i + 1))

\* C20. Accumulator determinism: after every step, root, next_index and
\* frontier are those of an accumulator that was initialised the same way
\* and given the same leaves one by one from empty, whatever calls
\* (append_note, append_many, failed or not) the leaves arrived in; the root
\* is the Merkle root of the ordered leaves and depends on nothing else.
C20_Deterministic ==
    /\ commitment_tree = append_loop(tree_init, leaves).tree
    /\ commitment_tree.next_index = Len(leaves)
    /\ Len(leaves) > 0 => commitment_tree.current_root = subtree(leaves, DEPTH, 0)

\* C20 witness: three leaves are in the tree, the last of them put there by
\* an append_many.
C20_Witness ==
    /\ Len(leaves) = 3
    /\ last.op = "append_many" /\ last.err = "Ok"
    /\ commitment_tree.next_index = 3


\* The amounts the fee is computed for: small ones, those around a whole
\* fee unit, and the largest u64 values.
FeeAmounts == {0, 1, 19, 1999, 2000, 9999, 10000, 10001, U64 - 2, U64 - 1}

\* fee is the integer part of amount * fee_bps / 10_000.
IsFloorFee(fee, amount, fee_bps) ==
    /\ fee * 10000 <= amount * fee_bps
    /\ amount * fee_bps < (fee + 1) * 10000

\* C14, the state part: for the stored fee_bps <= MAX_BPS and every amount,
\* calculate_fee does not overflow and returns the integer part of amount *
\* fee_bps / 10_000, between 0 and amount; at fee_bps = 5 it returns 5 for
\* 10,000 and 0 for 19.
C14_FeeExact ==
    pool_state.fee_bps <= MAX_BPS
      => /\ \A amount \in FeeAmounts :
              LET fee == calculate_fee(pool_state, amount)
              IN /\ ~calculate_fee_overflows(pool_state, amount)
                 /\ IsFloorFee(fee, amount, pool_state.fee_bps)
                 /\ 0 <= fee /\ fee <= amount
         /\ pool_state.fee_bps = 5
              => /\ calculate_fee(pool_state, 10000) = 5
                 /\ calculate_fee(pool_state, 19) = 0

\* C14, the step part: the fee a successful unshield adds to protocol_fees
\* is the integer part of released amount * fee_bps / 10_000.
C14_FeeCharged ==
    (last'.op = "unshield_to_origin" /\ last'.err = "Ok")
      => IsFloorFee(pool_state'.protocol_fees - pool_state.protocol_fees,
                    vault_token_amount - vault_token_amount',
                    pool_state.fee_bps)

\* C14. Fee arithmetic: for every u64 amount and every fee_bps <= MAX_BPS,
\* calculate_fee is exactly floor(amount * fee_bps / 10_000), without
\* overflow or truncation, so 0 <= fee <= amount.
C14_FeeArithmetic == [](C14_FeeExact) /\ [][C14_FeeCharged]_vars

\* C14 witness: at fee_bps = 5 an unshield of 9,500 was charged a fee of 4.
C14_Witness ==
    /\ last.op = "unshield_to_origin" /\ last.err = "Ok"
    /\ pool_state.fee_bps = 5
    /\ pool_state.protocol_fees = 4
    /\ wallet = 9500

\* C15, the state part: the stored fee_bps is within [0, MAX_BPS], and a
\* configuration call with fee_bps > MAX_BPS is refused with InvalidFeeBps.
C15_InRange ==
    /\ 0 <= pool_state.fee_bps /\ pool_state.fee_bps <= MAX_BPS
    /\ \A fee_bps \in FeeArgs :
         fee_bps > MAX_BPS
           => IF pool_created(World)
              THEN set_fee(World, AuthorityKey, fee_bps)
                     = Err(World, "InvalidFeeBps")
              ELSE initialize_pool(World, [fee_bps |-> fee_bps, features |-> 0,
                                           twin_mint |-> NoAccount])
                     = Err(World, "InvalidFeeBps")

\* C15, the step part: a call refused with InvalidFeeBps leaves the stored
\* fee (and every account) as it was, and a pool is created or reconfigured
\* only with a fee within the range.
C15_Kept ==
    /\ last'.err = "InvalidFeeBps" => UNCHANGED accounts
    /\ pool_state'.fee_bps # pool_state.fee_bps
         => /\ last'.op \in {"initialize_pool", "set_fee"}
            /\ last'.err = "Ok"
            /\ pool_state'.fee_bps \in FeeArgs
            /\ pool_state'.fee_bps <= MAX_BPS

\* C15. fee_bps stays within [0, MAX_BPS]: after any sequence of
\* initialize_pool and set_fee calls with arbitrary fee_bps arguments the
\* stored fee_bps is <= MAX_BPS, also after a call with fee_bps > MAX_BPS.
C15_FeeBpsInRange == [](C15_InRange) /\ [][C15_Kept]_vars

\* C15 witness: the authority's set_fee with a fee above MAX_BPS was refused
\* on a pool whose fee is MAX_BPS.
C15_Witness ==
    /\ last = [op |-> "set_fee", err |-> "InvalidFeeBps", signed |-> TRUE]
    /\ pool_state.fee_bps = MAX_BPS

\* C16, the state part: while the PRIVATE_TRANSFER bit is clear no
\* private_transfer succeeds, and one that names the pool's verifier fails
\* with FeatureDisabled.
C16_Gated ==
    (pool_created(World)
     /\ ~contains(pool_state.features, FEATURE_PRIVATE_TRANSFER_ENABLED))
      => \A a \in TransferInputs(World) :
           LET r == private_transfer(World, a)
           IN /\ r.err # "Ok"
              /\ a.verifier_program = VerifierKey => r.err = "FeatureDisabled"

\* C16, the step part: a private_transfer succeeds only with the bit set,
\* and one called with the bit clear changes no nullifier, leaf, root or
\* ledger counter.
C16_NothingTransferred ==
    last'.op = "private_transfer"
      => /\ last'.err = "Ok"
              => (pool_state.features \div FEATURE_PRIVATE_TRANSFER_ENABLED) % 2 = 1
         /\ (pool_state.features \div FEATURE_PRIVATE_TRANSFER_ENABLED) % 2 = 0
              => UNCHANGED <<accounts, pushed, leaves>>

\* C16. Feature gating of transfers: private_transfer succeeds only while
\* the PRIVATE_TRANSFER bit is set; with the bit clear, from the start or
\* after set_features, it fails with FeatureDisabled and changes nothing.
C16_TransferGated == [](C16_Gated) /\ [][C16_NothingTransferred]_vars

\* C16 witness: a private_transfer was refused with FeatureDisabled by a
\* pool that had accepted a private_transfer before the bit was cleared.
C16_Witness ==
    /\ last = [op |-> "private_transfer", err |-> "FeatureDisabled", signed |-> TRUE]
    /\ nullifier_set.count = 1
    /\ note_ledger.notes_consumed = 1


\* C21, the first half: a shield, private_transfer or unshield that
\* succeeds proposed as new root the root the accumulator computes from its
\* frontier after inserting the call's leaves.
C21_ProposedIsRecomputed ==
    /\ \A a \in ShieldInputs(World, Amounts) :
         shield(World, a).err = "Ok"
           => a.public_inputs.fields[2]
                = insert_leaf(commitment_tree, a.public_inputs.fields[3]).tree.current_root
    /\ \A a \in TransferInputs(World) :
         private_transfer(World, a).err = "Ok"
           => a.new_root = append_many(commitment_tree, a.output_commitments,
                                       a.output_amount_commitments).tree.current_root
    /\ \A mode \in {0, 1} : \A a \in UnshieldInputs(World, mode, Amounts) :
         process_unshield(World, a, mode).err = "Ok"
           => a.new_root = append_many(commitment_tree, a.output_commitments,
                                       a.output_amount_commitments).tree.current_root

\* C21. Root transitions are recomputed: every leaf-inserting operation fails
\* unless the proposed new root is the one the accumulator recomputes after
\* inserting the call's leaves; hence the root the pool stores as current is
\* a function of the ordered sequence of inserted leaves (the Merkle root of
\* these leaves), never a caller-chosen value.
C21_RootRecomputed ==
    /\ C21_ProposedIsRecomputed
    /\ (last.op \in MutatingOps /\ Len(leaves) > 0)
         => pool_state.current_root = subtree(leaves, DEPTH, 0)


\* C22, the state part: next_index is at most 2^D; an insert is taken
\* exactly while next_index < 2^D and advances next_index by one, a refused
\* one (TreeFull) leaves the tree as it was; a batch advances next_index by
\* the number of leaves it inserted.
C22_IndexBounded ==
    /\ commitment_tree.next_index >= 0
    /\ commitment_tree.next_index <= Pow2(DEPTH)
    /\ \A c \in TreeCommitments :
         LET r == insert_leaf(commitment_tree, c)
         IN IF commitment_tree.next_index < Pow2(DEPTH)
            THEN r.err = "Ok" /\ r.tree.next_index = commitment_tree.next_index + 1
            ELSE r.err = "TreeFull" /\ r.tree = commitment_tree
    /\ \A cs \in TreeBatches :
         LET r == append_many(commitment_tree, cs, [i \in 1..Len(cs) |-> AmountCommit(i)])
             room == Pow2(DEPTH) - commitment_tree.next_index
         IN /\ r.err = (IF Len(cs) <= room THEN "Ok" ELSE "TreeFull")
            /\ r.tree.next_index
                 = commitment_tree.next_index + (IF Len(cs) <= room THEN Len(cs) ELSE room)

\* C22, the step part: next_index never decreases, and the tree after a step
\* is the tree before it with next_index' - next_index leaves inserted.
C22_IndexAdvances ==
    LET inserted == commitment_tree'.next_index - commitment_tree.next_index
    IN /\ inserted >= 0
       /\ Len(leaves') = Len(leaves) + inserted
       /\ commitment_tree'
            = append_loop(commitment_tree,
                          SubSeq(leaves', Len(leaves) + 1, Len(leaves'))).tree
       /\ (last'.err = "Ok" /\ last'.op = "append_note") => inserted = 1

\* C22 (amended). Accumulator index invariant: in every reachable state of
\* the commitment tree of depth D, next_index <= 2^D, with equality when the
\* tree is full; next_index never decreases and increases by exactly one per
\* inserted leaf.
C22_IndexInvariant == [](C22_IndexBounded) /\ [][C22_IndexAdvances]_vars

\* C22 witness: the tree is full and has refused a leaf.
C22_Witness ==
    /\ commitment_tree.next_index = Pow2(DEPTH)
    /\ last.err = "TreeFull"
    /\ Len(leaves) = Pow2(DEPTH)

\* C22 as stated: next_index < 2^D in every reachable state.
C22_IndexBelowCapacity == commitment_tree.next_index < Pow2(DEPTH)


\* The shield a client sends with the remaining accounts given, to a hook
\* target that returns Ok.
HookedShield(provided) ==
    shield(World, [ShieldArgs(World, 1, FreshCommit(World)) EXCEPT
                     !.remaining_accounts = provided])

\* The post-shield hook is dispatched by the pool as it stands.
PostShieldHooked ==
    /\ contains(pool_state.features, FEATURE_HOOKS_ENABLED)
    /\ pool_state.hook_config_present
    /\ hook_config.post_shield_program_id # DefaultKey

\* C23 (amended). Hook account matching: validate_hook_keys accepts in
\* Strict mode exactly when the provided accounts are the required accounts,
\* key by key in the same order, and fails with HookAccountMismatch
\* otherwise; in Lenient mode it accepts exactly when the provided set is a
\* superset of the required set, and fails with HookAccountMissing
\* otherwise. A shield whose hook is dispatched fails the same way.
C23_HookMatching ==
    \A provided \in ProvidedLists :
      LET required == hook_config.required_accounts
          v == validate_hook_keys(required, hook_config.mode, provided)
      IN /\ hook_config.mode = "Strict"
              => v = (IF provided = required THEN "Ok" ELSE "HookAccountMismatch")
         /\ hook_config.mode = "Lenient"
              => v = (IF Range(required) \subseteq Range(provided)
                      THEN "Ok" ELSE "HookAccountMissing")
         /\ (PostShieldHooked /\ wallet > 0
             /\ commitment_tree.next_index < Pow2(DEPTH))
              => HookedShield(provided).err = v

\* C23 witness: with A, B required in Strict mode the account check has
\* refused a list, and it refuses B, A.
C23_Witness ==
    /\ last = [op |-> "validate_hook_keys", err |-> "HookAccountMismatch",
               signed |-> FALSE]
    /\ hook_config.mode = "Strict"
    /\ hook_config.required_accounts = <<HookAccA, HookAccB>>
    /\ validate_hook_keys(hook_config.required_accounts, hook_config.mode,
                          <<HookAccB, HookAccA>>) = "HookAccountMismatch"

\* C23 as stated: in Strict mode the check accepts exactly when the provided
\* account set equals the required set, in whatever order.
C23_StrictIsSetEquality ==
    hook_config.mode = "Strict"
      => \A provided \in ProvidedLists :
           (validate_hook_keys(hook_config.required_accounts, hook_config.mode,
                               provided) = "Ok")
             <=> (Range(provided) = Range(hook_config.required_accounts))


\* C24, the state part: called by the authority, configure_hooks fails with
\* HooksDisabled and writes nothing while the HOOKS bit is clear; while it is
\* set (and the list has at most MAX_REQUIRED_ACCOUNTS keys) it stores the
\* targets, the required accounts and the mode of its arguments, sets
\* hook_config_present iff one of the targets is not the zero key, and
\* writes nothing else. hook_config_present always tells whether a stored
\* target is non-zero.
C24_Configured ==
    /\ pool_state.hook_config_present
         <=> (hook_config.post_shield_program_id # DefaultKey
              \/ hook_config.post_unshield_program_id # DefaultKey)
    /\ \A a \in HookArgs :
         LET r == configure_hooks(World, AuthorityKey, a)
         IN IF ~contains(pool_state.features, FEATURE_HOOKS_ENABLED)
            THEN r = Err(World, "HooksDisabled")
            ELSE Len(a.required_accounts) <= MAX_REQUIRED_ACCOUNTS
                   => /\ r.err = "Ok"
                      /\ r.w.hook_config
                           = [post_shield_program_id |-> a.post_shield_program,
                              post_unshield_program_id |-> a.post_unshield_program,
                              required_accounts |-> a.required_accounts,
                              mode |-> a.mode]
                      /\ r.w.pool_state.hook_config_present
                           <=> (a.post_shield_program # DefaultKey
                                \/ a.post_unshield_program # DefaultKey)
                      /\ r.w = [World EXCEPT
                                  !.hook_config = r.w.hook_config,
                                  !.pool_state.hook_config_present =
                                      r.w.pool_state.hook_config_present]

\* C24, the step part: a configure_hooks refused with HooksDisabled found
\* the bit clear and changed no account; one that succeeded found it set.
C24_Gated ==
    last'.op = "configure_hooks"
      => /\ last'.err = "HooksDisabled"
              => /\ ~contains(pool_state.features, FEATURE_HOOKS_ENABLED)
                 /\ UNCHANGED accounts
         /\ last'.err = "Ok"
              => contains(pool_state.features, FEATURE_HOOKS_ENABLED)
         /\ ~contains(pool_state.features, FEATURE_HOOKS_ENABLED)
              => UNCHANGED <<hook_config, pool_state>>

\* C24. configure_hooks fails with HooksDisabled and leaves the hook
\* configuration and hook_config_present unchanged when the HOOKS feature
\* bit is clear; when the bit is set it overwrites targets, required
\* accounts and mode, and afterwards hook_config_present is true iff at
\* least one of the two targets is non-zero.
C24_ConfigureHooks == [](C24_Configured) /\ [][C24_Gated]_vars

\* C24 witness: configure_hooks was refused with HooksDisabled on a pool
\* whose hooks had been configured before the bit was cleared.
C24_Witness ==
    /\ last = [op |-> "configure_hooks", err |-> "HooksDisabled", signed |-> TRUE]
    /\ pool_state.hook_config_present
    /\ hook_config.post_unshield_program_id = HookProgram
    /\ hook_config.required_accounts = <<HookAccA, HookAccB>>


\* C25, the state part: the first count entries of the registry are
\* pairwise distinct, each of them is found by contains, and count is within
\* the capacity.
C25_Unique ==
    /\ nullifier_set.count \in 0..MAX_NULLIFIERS
    /\ \A i, j \in 0..(nullifier_set.count - 1) :
         i # j => nullifier_set.entries[i] # nullifier_set.entries[j]
    /\ \A i \in 0..(nullifier_set.count - 1) :
         NullifierSet_contains(nullifier_set, nullifier_set.entries[i])

\* C25, the step part: count does not decrease, grows by the number of
\* nullifiers a successful operation spent, and every stored entry keeps its
\* index and its value.
C25_Permanent ==
    /\ nullifier_set'.count >= nullifier_set.count
    /\ \A i \in 0..(nullifier_set.count - 1) :
         /\ nullifier_set'.entries[i] = nullifier_set.entries[i]
         /\ NullifierSet_contains(nullifier_set', nullifier_set.entries[i])
    /\ nullifier_set' # nullifier_set
         => /\ last'.err = "Ok"
            /\ last'.op \in {"private_transfer", "unshield_to_origin",
                             "unshield_to_ptkn", "write_nullifier"}
            /\ nullifier_set'.count = nullifier_set.count + 1

\* C25. Nullifier permanence and uniqueness: in every reachable state the
\* first count entries of the nullifier registry are pairwise distinct, and
\* an entry once stored stays at its index with its value in every later
\* state; no operation removes or overwrites a stored nullifier or
\* decreases count.
C25_NullifiersPermanent == [](C25_Unique) /\ [][C25_Permanent]_vars

\* C25 witness: the registry holds two nullifiers, the second stored by an
\* unshield after the first was stored by another operation.
C25_Witness ==
    /\ nullifier_set.count = 2
    /\ nullifier_set.entries[0] # nullifier_set.entries[1]
    /\ last.op = "unshield_to_origin" /\ last.err = "Ok"


\* C26. Capacity error: while the registry holds MAX_NULLIFIERS entries,
\* recording a nullifier that is not present fails with NullifierCapacity
\* and leaves the registry unchanged, for NullifierSet.insert itself and for
\* write_nullifier, private_transfer and unshield.
C26_CapacityError ==
    LET n == Nullifier(FreshNullifier(World))
        t == TransferArgs(World, FreshNullifier(World), FreshCommit(World),
                          pool_state.current_root)
        u == UnshieldArgs(World, 0, 1, FreshNullifier(World), FreshCommit(World),
                          pool_state.current_root)
    IN (nullifier_set.count = MAX_NULLIFIERS
        /\ ~NullifierSet_contains(nullifier_set, n))
         => /\ NullifierSet_insert(nullifier_set, n)
                 = [err |-> "NullifierCapacity", set |-> nullifier_set]
            /\ write_nullifier(World, AuthorityKey, n)
                 = Err(World, "NullifierCapacity")
            /\ private_transfer(World, t).err = "NullifierCapacity"
            /\ private_transfer(World, t).w.nullifier_set = nullifier_set
            /\ ensure_capacity(note_ledger, 1 + calculate_fee(pool_state, 1))
                 => /\ process_unshield(World, u, 0).err = "NullifierCapacity"
                    /\ process_unshield(World, u, 0).w.nullifier_set = nullifier_set


\* The unshield of one token a client builds for the pool as it stands, and
\* the same call with its public inputs altered: each field in turn replaced
\* by a value <<8, i>> that nothing else takes, the amount and fee fields by the encodings of other
\* numbers, the mode field by the other mode, one field dropped, one added,
\* or trailing bytes that do not fill a field.
BoundUnshield(mode) ==
    UnshieldArgs(World, mode, 1, FreshNullifier(World), FreshCommit(World),
                 pool_state.current_root)

AlteredInputs(a) ==
    LET fields == a.public_inputs.fields
        n == Len(fields)
    IN {[a EXCEPT !.public_inputs.fields[i] = <<8, i>>] : i \in 1..n}
       \cup {[a EXCEPT !.public_inputs.fields[n - 5] = u64_to_field_bytes(a.amount + 1)],
             [a EXCEPT !.public_inputs.fields[n - 4] = u64_to_field_bytes(fields[n - 4][2] + 1)],
             [a EXCEPT !.public_inputs.fields[n - 3] = key_to_bytes(OtherKey)],
             [a EXCEPT !.public_inputs.fields[n - 2] = u8_to_field_bytes(1 - fields[n - 2][2])],
             [a EXCEPT !.public_inputs.fields[n - 1] = key_to_bytes(TwinMintKey)],
             [a EXCEPT !.public_inputs.fields[n] = key_to_bytes(OtherKey)],
             [a EXCEPT !.public_inputs.fields = SubSeq(fields, 1, n - 1)],
             [a EXCEPT !.public_inputs.fields = Tail(fields)],
             [a EXCEPT !.public_inputs.fields = Append(fields, ZeroBytes)],
             [a EXCEPT !.public_inputs.fields = <<>>],
             [a EXCEPT !.public_inputs.ragged = TRUE]}

\* C27, the state part: the public inputs of the client's unshield are the
\* fields [old_root, new_root, nullifiers, change commitments, change value
\* commitments, amount, fee, destination, mode, origin_asset_id, pool_id] and
\* pass the validation; with any altered public inputs the call does not
\* succeed: a wrong number of fields (or of bytes) fails the validation with
\* InvalidPublicInputs, a differing field with PublicInputMismatch.
C27_Bound ==
    \A mode \in {0, 1} :
      LET g == BoundUnshield(mode)
          fee == calculate_fee(pool_state, g.amount)
          expected == <<g.old_root, g.new_root, g.nullifiers[1],
                        g.output_commitments[1], g.output_amount_commitments[1],
                        u64_to_field_bytes(g.amount), u64_to_field_bytes(fee),
                        key_to_bytes(g.destination_owner), u8_to_field_bytes(mode),
                        key_to_bytes(OriginMintKey), key_to_bytes(PoolKey)>>
      IN /\ g.public_inputs.fields = expected
         /\ validate_unshield_public_inputs(pool_state, PoolKey, g, mode,
                                            g.destination_owner, fee) = "Ok"
         /\ \A a \in AlteredInputs(g) :
              LET v == validate_unshield_public_inputs(pool_state, PoolKey, a, mode,
                                                       a.destination_owner, fee)
                  r == process_unshield(World, a, mode)
              IN /\ v = (IF a.public_inputs.ragged
                            \/ Len(a.public_inputs.fields) # Len(expected)
                         THEN "InvalidPublicInputs" ELSE "PublicInputMismatch")
                 /\ r.err # "Ok"
                 /\ r.w = World
                 /\ ensure_capacity(note_ledger, g.amount + fee) => r.err = v

\* C27, the step part: an unshield that failed the validation of its public
\* inputs changed no state, and one that succeeded carried the fields bound
\* to the stored fee rate and grew the collected fees by the bound fee.
C27_NothingChanged ==
    last'.op \in {"unshield_to_origin", "unshield_to_ptkn"}
      => /\ last'.err \in {"InvalidPublicInputs", "PublicInputMismatch"}
              => UNCHANGED <<accounts, pushed, leaves>>
         /\ last'.err = "Ok"
              => \E amount \in Amounts :
                   /\ vault_token_amount' = vault_token_amount - amount
                   /\ pool_state'.protocol_fees
                        = pool_state.protocol_fees + calculate_fee(pool_state, amount)

C28_VerifiedFirst ==
    LET Refused(a) == ~verify_groth16(build, a.proof, a.public_inputs)
        Fails(a, r) ==
            /\ r.err # "Ok"
            /\ r.w = World
            /\ a.public_inputs.fields # <<>> => r.err = "InvalidProof"
    IN /\ \A a \in ProvenShields(World) :
            Refused(a) => Fails(a, shield(World, a))
       /\ \A a \in ProvenTransfers(World) :
            Refused(a) => Fails(a, private_transfer(World, a))
       /\ \A a \in ProvenUnshields(World) :
            Refused(a) => Fails(a, process_unshield(World, a, 0))

\* C28, the step part: an operation that ended with the verifier's error
\* changed no account, root history or leaf.
C28_NoEffect ==
    last'.err = "InvalidProof" => UNCHANGED <<accounts, pushed, leaves>>

\* C28. Verification precedes mutation: in shield, private_transfer and
\* unshield the verifier is invoked before any vault deposit / release, twin
\* mint, nullifier insert, leaf insert, root push or ledger update; if the
\* verifier returns an error the operation fails and none of those effects
\* occurs.
C28_VerificationFirst == [](C28_VerifiedFirst) /\ [][C28_NoEffect]_vars

\* C28 witness: an unshield from a funded pool ended with the verifier's
\* error.
C28_Witness ==
    /\ last.op = "unshield_to_origin" /\ last.err = "InvalidProof"
    /\ vault_token_amount > 0
    /\ note_ledger.live_value > 0

\* C29. The verifier accepts only verified proofs: verify_groth16 returns Ok
\* only for a proof the Groth16 check accepts for the public inputs, an
\* empty proof with empty public inputs is rejected, and so no shield,
\* private_transfer or unshield succeeds without such a proof.
C29_OnlyVerifiedProofs ==
    /\ \A proof \in ProofKinds :
         \A public_inputs \in {[fields |-> <<>>, ragged |-> FALSE],
                               [fields |-> <<pool_state.current_root>>,
                                ragged |-> FALSE]} :
           verify_groth16(build, proof, public_inputs) => proof = "valid"
    /\ \A a \in ProvenShields(World) :
         shield(World, a).err = "Ok" => a.proof = "valid"
    /\ \A a \in ProvenTransfers(World) :
         private_transfer(World, a).err = "Ok" => a.proof = "valid"
    /\ \A a \in ProvenUnshields(World) :
         process_unshield(World, a, 0).err = "Ok" => a.proof = "valid"


\* C30, the state part: the shield of amount 0 a client builds for the pool
\* as it stands is refused by the vault's deposit with InvalidDepositAmount,
\* and no shield of amount 0 succeeds or has written an account when it
\* returns.
C30_ZeroRefused ==
    /\ shield(World, ShieldArgs(World, 0, FreshCommit(World)))
         = Err(World, "InvalidDepositAmount")
    /\ deposit(World, 0) = Err(World, "InvalidDepositAmount")
    /\ \A a \in ShieldInputs(World, Amounts) :
         a.amount = 0 => /\ shield(World, a).err # "Ok"
                         /\ shield(World, a).w = World

\* C30, the step part: a shield refused for its amount changed no account,
\* root history or leaf, and a shield that succeeded moved a positive amount
\* into the vault.
C30_NothingShielded ==
    last'.op = "shield"
      => /\ last'.err = "InvalidDepositAmount"
              => UNCHANGED <<accounts, pushed, leaves>>
         /\ last'.err = "Ok"
              => /\ vault_token_amount' > vault_token_amount
                 /\ note_ledger'.live_value > note_ledger.live_value

\* C30. shield requires amount > 0: a shield call with amount = 0 is
\* rejected, and the vault balance, accumulator, root window and ledger are
\* unchanged.
C30_ShieldPositive == [](C30_ZeroRefused) /\ [][C30_NothingShielded]_vars

\* C30 witness: a shield of amount 0 was refused by a pool that holds a
\* deposit.
C30_Witness ==
    /\ last = [op |-> "shield", err |-> "InvalidDepositAmount", signed |-> TRUE]
    /\ vault_token_amount > 0
    /\ commitment_tree.next_index > 0


\* C31 (as stated): while timelock_seconds > 0, every set_default_features
\* and update_mint call of the authority fails with TimelockOnlyQueue and
\* changes nothing.
C31_DirectUpdatesBlocked ==
    factory.timelock_seconds > 0 =>
        /\ \A features \in 0..3 :
             set_default_features(World, AuthorityKey, features)
               = Err(World, "TimelockOnlyQueue")
        /\ \A p \in MintParams, ptkn_mint \in {NoAccount, TwinMintKey} :
             update_mint(World, AuthorityKey, p, ptkn_mint)
               = Err(World, "TimelockOnlyQueue")

\* The direct configuration calls fail and change nothing; the error is
\* TimelockOnlyQueue when the authority calls and, for update_mint, the
\* factory is not paused.
C31_DirectBlocked ==
    factory.timelock_seconds > 0 =>
        /\ \A authority \in Signers, features \in 0..3 :
             LET r == set_default_features(World, authority, features)
             IN /\ r.w = World
                /\ r.err = IF authority = AuthorityKey THEN "TimelockOnlyQueue"
                           ELSE "ConstraintHasOne"
        /\ \A authority \in Signers, p \in MintParams,
              ptkn_mint \in {NoAccount, TwinMintKey} :
             LET r == update_mint(World, authority, p, ptkn_mint)
             IN /\ r.w = World
                /\ r.err = IF authority # AuthorityKey THEN "ConstraintHasOne"
                           ELSE IF factory.paused THEN "Paused"
                           ELSE "TimelockOnlyQueue"

\* The configuration the direct calls write changes in no step but one of
\* execute_timelock_action.
C31_OnlyThroughQueue ==
    (/\ factory.timelock_seconds > 0
     /\ <<factory'.default_features, factory'.features, factory'.has_ptkn,
          factory'.has_fee_override, factory'.fee_bps_override>>
        # <<factory.default_features, factory.features, factory.has_ptkn,
            factory.has_fee_override, factory.fee_bps_override>>)
    => last'.op = "execute_timelock_action" /\ last'.err = "Ok"

\* C31: while timelock_seconds > 0, set_default_features and update_mint fail
\* and leave default_features and the mint mapping unchanged, with
\* TimelockOnlyQueue whenever the authority calls and (for update_mint) the
\* factory is not paused; default_features and the mapping change only in a
\* successful execute_timelock_action.
C31_TimelockBlocksDirect == [](C31_DirectBlocked) /\ [][C31_OnlyThroughQueue]_vars

\* A direct update_mint of the authority was refused under a timelock, after
\* a queued action had changed the mapping.
C31_Witness ==
    /\ factory.timelock_seconds > 0
    /\ last.op = "update_mint"
    /\ last.err = "TimelockOnlyQueue"
    /\ last.signed
    /\ factory.features # 0

\* The queued entries, and the execute_timelock_action calls on them.
Pending == {salt \in Salts : factory.entries[salt] # NoEntry}
Ready(salt) == factory.unix_timestamp >= factory.entries[salt].execute_after

\* The factory after the queued action was applied by the executor who
\* passes the mapping and the twin mint; Invalid: an action that the handler
\* refuses whenever it is executed.
Invalid(action) ==
    /\ action.kind = "UpdateMint"
    /\ action.params.fee_bps_override # None
    /\ action.params.fee_bps_override[1] > MAX_BPS

Applied(f, action) ==
    IF action.kind = "SetDefaultFeatures"
    THEN f.default_features = action.features
    ELSE IF action.kind = "PauseFactory" THEN f.paused
    ELSE IF action.kind = "UnpauseFactory" THEN ~f.paused
    ELSE /\ action.params.features # None
            => f.features = action.params.features[1]
         /\ action.params.fee_bps_override # None
            => f.has_fee_override
               /\ f.fee_bps_override = action.params.fee_bps_override[1]
         /\ action.params.enable_ptkn # None
            => f.has_ptkn = action.params.enable_ptkn[1]

C32_Delay ==
    \A salt \in Pending :
        LET entry == factory.entries[salt]
        IN /\ entry.execute_after = entry.queued_at + factory.timelock_seconds
           /\ entry.queued_at <= factory.unix_timestamp
           /\ \A mint_mapping \in MintMappings, ptkn_mint \in {NoAccount, TwinMintKey} :
                LET r == execute_timelock_action(World, salt, mint_mapping, ptkn_mint)
                IN /\ ~Ready(salt) => r = Err(World, "TimelockNotReady")
                   /\ Ready(salt) /\ mint_mapping # NoAccount /\ ptkn_mint # NoAccount
                      => IF Invalid(entry.action)
                         THEN r = Err(World, "InvalidFeeBps")
                         ELSE /\ r.err = "Ok"
                              /\ Applied(r.w.factory, entry.action)
                              /\ r.w.factory.entries[salt] = NoEntry

\* An entry leaves the queue by execute_timelock_action only when the clock
\* has reached its execute_after, and then its action is applied.
C32_NeverEarly ==
    \A salt \in Salts :
        (/\ factory.entries[salt] # NoEntry
         /\ factory'.entries[salt] = NoEntry
         /\ last'.op = "execute_timelock_action")
        => /\ Ready(salt)
           /\ last'.err = "Ok"
           /\ Applied(factory', factory.entries[salt].action)

merkle_root(ls) ==
    poseidon_hash(subtree(ls, DEPTH - 1, 0), subtree(ls, DEPTH - 1, 1))

\* C33: for every number k of inserted leaves, 0 <= k <= 2^DEPTH (k = 0 right
\* after init), current_root is the root of the full depth-DEPTH tree whose
\* first k leaves are the inserted commitments in order and whose other
\* positions are empty.
C33_RootIsMerkleRoot ==
    /\ commitment_tree.next_index = Len(leaves)
    /\ commitment_tree.current_root = merkle_root(leaves)

\* C34: append_many fails with OutputSetMismatch and inserts nothing whenever
\* the two arrays differ in length; on empty input it returns the unchanged
\* tree; otherwise it inserts the commitments in order.
C34_InputContract ==
    \A cs \in TreeBatches, n \in 0..3 :
        LET r == append_many(commitment_tree, cs, [i \in 1..n |-> AmountCommit(i)])
        IN IF Len(cs) # n
           THEN r = [err |-> "OutputSetMismatch", tree |-> commitment_tree]
           ELSE IF cs = <<>> THEN r = [err |-> "Ok", tree |-> commitment_tree]
           ELSE r = append_loop(commitment_tree, cs)

\* C35: inserting a leaf when next_index >= 2^DEPTH fails with TreeFull and
\* leaves next_index, current_root, the frontier and the recent-leaf ring
\* unchanged; every insertion with next_index < 2^DEPTH succeeds and takes
\* the previous next_index as its leaf index.
C35_TreeFull ==
    \A c \in TreeCommitments :
        LET r == insert_leaf(commitment_tree, c)
            n == commitment_tree.next_index
        IN IF n >= Pow2(DEPTH)
           THEN /\ r.err = "TreeFull"
                /\ r.tree.next_index = n
                /\ r.tree.current_root = commitment_tree.current_root
                /\ r.tree.frontier = commitment_tree.frontier
                /\ r.tree.recent = commitment_tree.recent
           ELSE /\ r.err = "Ok"
                /\ r.tree.next_index = n + 1
                /\ r.tree.recent[Len(r.tree.recent)]
                     = [index |-> n, commitment |-> c]

\* An append_note on the full tree was refused.
C35_Witness ==
    /\ last.op = "append_note"
    /\ last.err = "TreeFull"
    /\ commitment_tree.next_index = Pow2(DEPTH)
    /\ Len(commitment_tree.recent) = Pow2(DEPTH)

\* The arguments record_transfer is tried with: up to two nullifiers and up
\* to two output value commitments.
LedgerNullifiers == {<<>>, <<Nullifier(1)>>, <<Nullifier(1), Nullifier(2)>>}
LedgerOutputs == {<<>>, <<AmountCommit(1)>>, <<AmountCommit(1), AmountCommit(2)>>}

\* C36: record_transfer leaves live_value, total_minted and total_spent
\* unchanged for every input, adds the number of nullifiers to notes_consumed
\* and the number of output value commitments to notes_created, and so keeps
\* the conservation equation as it was when the vault balance, the twin
\* supply and protocol_fees are unchanged.
C36_TransferEffect ==
    \A nullifiers \in LedgerNullifiers, amount_commitments \in LedgerOutputs :
        LET r == record_transfer(note_ledger, nullifiers, amount_commitments)
        IN /\ r.err = "Ok"
           /\ r.ledger.live_value = note_ledger.live_value
           /\ r.ledger.total_minted = note_ledger.total_minted
           /\ r.ledger.total_spent = note_ledger.total_spent
           /\ r.ledger.notes_consumed = note_ledger.notes_consumed + Len(nullifiers)
           /\ r.ledger.notes_created
                = note_ledger.notes_created + Len(amount_commitments)
           /\ (vault_token_amount = twin_supply + r.ledger.live_value
                                      + pool_state.protocol_fees)
              = Conserved

\* A record_transfer counted a nullifier and an output on a ledger that
\* holds value.
C36_Witness ==
    /\ last.op = "record_transfer"
    /\ last.err = "Ok"
    /\ note_ledger.live_value > 0
    /\ note_ledger.notes_consumed > 0
    /\ note_ledger.notes_created > note_ledger.notes_consumed

\* The values the registry is asked about, and those it stores.
RegistryValues == {Nullifier(n) : n \in 0..(2 * MAX_NULLIFIERS + 2)} \cup {ZeroBytes}
Stored(set) == {set.entries[idx] : idx \in 0..(set.count - 1)}

\* C37: in every reachable registry state and for every value v, contains(v)
\* is true if and only if v is one of the first `count` entries: every stored
\* entry has all of its bloom positions set, and a value that passes the
\* bloom filter without being stored is reported absent.
C37_NoFalseNegatives ==
    /\ \A v \in RegistryValues :
         NullifierSet_contains(nullifier_set, v) <=> v \in Stored(nullifier_set)
    /\ \A v \in Stored(nullifier_set) : test_bloom_bits(nullifier_set, v)
    /\ \A v \in RegistryValues :
         (test_bloom_bits(nullifier_set, v) /\ v \notin Stored(nullifier_set))
         => ~NullifierSet_contains(nullifier_set, v)

\* The registry holds a nullifier, and a value it does not hold passes the
\* bloom filter.
C37_Witness ==
    /\ nullifier_set.count > 0
    /\ \E v \in RegistryValues :
         /\ test_bloom_bits(nullifier_set, v)
         /\ v \notin Stored(nullifier_set)
         /\ ~NullifierSet_contains(nullifier_set, v)

\* The nullifiers of the registry that the ledger has not counted.
Uncounted == nullifier_set.count - note_ledger.notes_consumed

C38_CreatedIsNextIndex ==
    note_ledger.notes_created = commitment_tree.next_index

\* Uncounted starts at zero and grows by one with every successful
\* write_nullifier, and with nothing else.
C38_ConsumedIsRecorded ==
    Uncounted' = Uncounted
                 + (IF last'.op = "write_nullifier" /\ last'.err = "Ok" THEN 1 ELSE 0)

\* C38: in every state reached by shield, private_transfer and unshield
\* calls, notes_created equals the tree's next_index, and notes_consumed
\* equals the number of nullifiers recorded by private_transfer and unshield:
\* nullifier_set.count less the successful write_nullifier calls.
C38_CountersMirror ==
    /\ [](C38_CreatedIsNextIndex)
    /\ Uncounted = 0
    /\ [][C38_ConsumedIsRecorded]_vars

\* A transfer without outputs and a shield have succeeded: the two counters
\* moved apart and still mirror the tree and the registry.
C38_Witness ==
    /\ last.op \in MutatingOps
    /\ last.err = "Ok"
    /\ note_ledger.notes_consumed > 0
    /\ note_ledger.notes_created > 0
    /\ note_ledger.notes_created # note_ledger.notes_consumed
    /\ note_ledger.notes_created = commitment_tree.next_index
    /\ note_ledger.notes_consumed = nullifier_set.count

\* The occupied entries of the window of recent roots.
Occupied(pool) == {pool.recent_roots[i] : i \in 0..(pool.roots_len - 1)}

\* C39: in every state reached from initialize_pool by shield,
\* private_transfer and unshield calls only, the pool's current_root is the
\* tree's current_root, it is the last occupied entry of recent_roots, and
\* roots_len <= MAX_ROOTS.
C39_RootsInStep ==
    /\ pool_state.current_root = commitment_tree.current_root
    /\ pool_state.roots_len \in 1..MAX_ROOTS
    /\ pool_state.recent_roots[pool_state.roots_len - 1] = pool_state.current_root

\* The window is full, its oldest roots were evicted, and the last call
\* pushed the root of a tree that holds leaves.
C39_Witness ==
    /\ Len(pushed) > MAX_ROOTS
    /\ pool_state.roots_len = MAX_ROOTS
    /\ pushed[1] \notin Occupied(pool_state)
    /\ last.op \in MutatingOps
    /\ last.err = "Ok"
    /\ commitment_tree.next_index > 1

\* The pool's root is not the tree's root; the tree's root is not in the
\* window of recent roots.
Blocked == pool_state.current_root # commitment_tree.current_root
Lost ==
    /\ Blocked
    /\ commitment_tree.current_root \notin Occupied(pool_state)

\* The calls that pass the pool's own accounts, with every choice of the
\* other arguments: roots of the history, the tree's root and roots never
\* pushed, fresh and spent nullifiers, amounts, proofs and public inputs.
OwnAccounts(a) ==
    /\ a.verifier_program = VerifierKey
    /\ "vault_state" \in DOMAIN a => a.vault_state = VaultKey
    /\ "twin_mint" \in DOMAIN a => a.twin_mint = TwinAccount(World)
ProbeRoots == Range(pushed) \cup {BogusRoot(0), commitment_tree.current_root}
ShieldCalls == {a \in ShieldInputs(World, Amounts) : OwnAccounts(a)}
TransferCalls ==
    {a \in TransferInputs(World) \cup TransferProbes(World, ProbeRoots) :
        OwnAccounts(a)}
UnshieldCalls(mode) ==
    {a \in UnshieldInputs(World, mode, Amounts) \cup UnshieldProbes(World, ProbeRoots) :
        OwnAccounts(a)}

C40_ShieldsFail ==
    Blocked => \A a \in ShieldCalls : shield(World, a).err = "RootMismatch"

C40_AllFail ==
    Lost => /\ \A a \in TransferCalls :
                 private_transfer(World, a).err \in {"UnknownRoot", "RootMismatch"}
            /\ \A mode \in {0, 1} : \A a \in UnshieldCalls(mode) :
                 process_unshield(World, a, mode).err
                   \in {"UnknownRoot", "RootMismatch"}

\* MAX_ROOTS pushes in a row, none of them the tree's root, lose the root.
C40_SixteenLose ==
    (Len(pushed) > MAX_ROOTS /\ commitment_tree.current_root \notin Latest(MAX_ROOTS))
    <=> Lost

\* accept_root with another root than the tree's blocks; the shields are
\* let through again by a successful private_transfer, unshield or
\* accept_root, and a lost root comes back by accept_root alone.
C40_Steps ==
    /\ (last'.op = "accept_root" /\ last'.err = "Ok"
        /\ pushed'[Len(pushed')] # commitment_tree.current_root) => Blocked'
    /\ (Blocked /\ ~Blocked')
       => /\ last'.err = "Ok"
          /\ last'.op \in {"private_transfer", "unshield_to_origin",
                           "unshield_to_ptkn", "accept_root"}
    /\ (Lost /\ ~Lost')
       => /\ last'.op = "accept_root" /\ last'.err = "Ok"
          /\ pool_state'.current_root = commitment_tree.current_root

\* The statement as written: only a successful private_transfer or unshield
\* lets the shields through again.
C40_OnlyTransfersUnblock ==
    (Blocked /\ ~Blocked')
    => /\ last'.err = "Ok"
       /\ last'.op \in {"private_transfer", "unshield_to_origin", "unshield_to_ptkn"}

C40_BlockedUntilTransfer ==
    /\ [](C40_ShieldsFail /\ C40_AllFail /\ C40_SixteenLose)
    /\ [][C40_OnlyTransfersUnblock]_vars

\* C40: after accept_root with a root other than the tree's current root,
\* every shield fails with RootMismatch until a private_transfer or unshield
\* succeeds (or accept_root is called with the tree's root); after MAX_ROOTS
\* such accept_root calls in a row every shield fails with RootMismatch and
\* every private_transfer and unshield fails with UnknownRoot or
\* RootMismatch, whatever the arguments, until accept_root is called with the
\* tree's current root.
C40_AcceptRootBlocks ==
    /\ [](C40_ShieldsFail /\ C40_AllFail /\ C40_SixteenLose)
    /\ [][C40_Steps]_vars

\* After MAX_ROOTS accept_root calls in a row the tree's root is lost, and
\* a shield was refused with RootMismatch.
C40_Witness ==
    /\ Lost
    /\ Len(pushed) = MAX_ROOTS + 1
    /\ last.op = "shield"
    /\ last.err = "RootMismatch"

=============================================================================
